---- MODULE Spec2Model ----
(***************************************************************************)
(* Long-term memory subsystem of the AI companion:                         *)
(*   modules/memory/long_term/vector_store.py   (VectorStore)              *)
(*   modules/memory/long_term/memory_manager.py (MemoryManager)            *)
(* The vector index (Qdrant), the embedding model and the LLM are external *)
(* capabilities: every call to one of them has an outcome chosen by the    *)
(* environment.  Similarities are cosine scores scaled by 100.             *)
(***************************************************************************)
EXTENDS Integers, Sequences, FiniteSets, TLC

VARIABLES
    collection,  \* TRUE iff the collection "long_term_memory" exists in the index
    points,      \* the index: point id -> payload [text, id, timestamp]
    pc,          \* position of the running call
    op,          \* the running (or last finished) top-level call and its arguments
    pre,         \* the index (collection, points) when that call started
    llmOut,      \* what the LLM did when _analyze_memory invoked it
    analysis,    \* the MemoryAnalysis held by extract_and_store_memories
    metadata,    \* the metadata dict handed to store_memory
    similar,     \* `similar` of extract_and_store_memories
    similar_memory, \* `similar_memory` of store_memory
    env,         \* what the index and the model did in get_relevant_memories' search
    probe,       \* what the last stand-alone _collection_exists call did
    response,    \* the hits client.search returned to get_relevant_memories
    calls,       \* external calls made by the running call (answered: searches the index answered)
    ret,         \* how the call ended, and what it returned
    ipc,         \* position of the running TextToImage (or LLM) call
    iop,         \* that call and its arguments
    llm,         \* what the ChatGroq client did for the call's chain.ainvoke
    enhanced_prompt, \* `enhanced_prompt` of generate_image
    requests,    \* the render requests (urls) the call has issued
    saved,       \* output path -> bytes written by generate_image
    iret,        \* how the call ended, and what it returned
    thread,      \* the checkpointed state of the thread (session_id = from_number)
    files,       \* the image files on disk
    hnd,         \* the invocations of whatsapp_message_handler: position, locals, posts
    vs,          \* VectorStore._instance/_initialized, get_vector_store's cache, what was built
    fmt,         \* format_memories_for_prompt: the list given and the string returned
    cl,          \* the Chainlit session: position of on_message, its locals, what was sent
    vf,          \* the process's verify tokens and the last whatsapp_verification request
    au,          \* the Chainlit session's audio_buffer and what on_audio_end read from it
    dim          \* the vector size of the collection: of this model, of another, or none

memvars == <<collection, points, pc, op, pre, llmOut, analysis, metadata, similar,
             similar_memory, env, probe, response, calls, ret>>

imgvars == <<ipc, iop, llm, enhanced_prompt, requests, saved, iret>>

wavars == <<thread, files, hnd>>

appvars == <<vs, fmt, cl, vf, au>>

notmem == <<imgvars, wavars, appvars>>

others == <<notmem, dim>>

notimg == <<memvars, wavars, appvars, dim>>

notwa == <<memvars, imgvars, appvars, dim>>

notapp == <<memvars, imgvars, wavars, dim>>

vars == <<memvars, imgvars, wavars, appvars, dim>>

-----------------------------------------------------------------------------
(* Bounds of the model *)

MaxIds == 2     \* size of the id space uuid4 and callers draw from
MaxTopK == 2    \* settings.MEMORY_TOP_K ranges over 1..MaxTopK

Ids == 1..MaxIds
Timestamps == {1, 2}     \* two readings of datetime.now(), an earlier and a later one
NoId == 0
NoTs == 0
NoneStr == "<None>"

(* Formatted facts.  f1/f2 are paraphrases, f2/f3 sit exactly on the       *)
(* threshold, f1/f3 are distinct facts: similarity is not transitive.      *)
Texts == {"f1", "f2", "f3"}

Sim(a, b) ==
    IF a = b THEN 100
    ELSE IF {a, b} = {"f1", "f2"} THEN 95
    ELSE IF {a, b} = {"f2", "f3"} THEN 90
    ELSE 60

-----------------------------------------------------------------------------
(* VectorStore *)

SIMILARITY_THRESHOLD == 90
max_retries == 3

(* What the index answers to successive get_collections requests: success, *)
(* ResponseHandlingException, or another Exception.  A script is one        *)
(* request longer than the retry budget.                                    *)
Outcomes == {"ok", "rhe", "err"}
ScriptLen == max_retries + 1
Scripts == [1..ScriptLen -> Outcomes]

(* The scripts that differ in what a probe can observe: transient failures  *)
(* up to the first answer or hard error; what follows is never requested.   *)
ProbeScripts ==
    {s \in Scripts : \A i, j \in 1..ScriptLen : (i < j /\ s[i] # "rhe") => s[j] = "ok"}

(* One script for each way a probe can end: answered at once, a hard error, *)
(* transient failures throughout.  Used where only the probe's result is   *)
(* looked at.                                                              *)
EndScripts ==
    {s \in ProbeScripts : s[1] # "rhe" \/ \A i \in 1..ScriptLen : s[i] = "rhe"}

(* Variant of ProbeLoop with one attempt too many. *)
RECURSIVE ProbeLoopExtraAttempt(_, _, _, _)
ProbeLoopExtraAttempt(attempt, script, listing, sleeps) ==
    IF attempt > max_retries + 1
    THEN [result |-> FALSE, contacts |-> attempt - 1, sleeps |-> sleeps, raised |-> FALSE]
    ELSE IF script[attempt] = "ok"
    THEN [result |-> listing, contacts |-> attempt, sleeps |-> sleeps, raised |-> FALSE]
    ELSE IF script[attempt] = "rhe"
    THEN ProbeLoopExtraAttempt(attempt + 1, script, listing, Append(sleeps, attempt * 2))
    ELSE [result |-> FALSE, contacts |-> attempt, sleeps |-> sleeps, raised |-> FALSE]

(* Variant of ProbeLoop that takes every exception for a transient one. *)
RECURSIVE ProbeLoopRetriesAll(_, _, _, _)
ProbeLoopRetriesAll(attempt, script, listing, sleeps) ==
    IF attempt > max_retries
    THEN [result |-> FALSE, contacts |-> attempt - 1, sleeps |-> sleeps, raised |-> FALSE]
    ELSE IF script[attempt] = "ok"
    THEN [result |-> listing, contacts |-> attempt, sleeps |-> sleeps, raised |-> FALSE]
    ELSE ProbeLoopRetriesAll(attempt + 1, script, listing, Append(sleeps, attempt * 2))

(* lines 96-113: for attempt in range(1, max_retries + 1): one request;    *)
(* an answer ends the probe with the listing, ResponseHandlingException    *)
(* sleeps attempt * 2 and goes on, any other Exception ends it with False, *)
(* and so does running out of attempts.  Nothing is raised.                *)
RECURSIVE ProbeLoop(_, _, _, _)
ProbeLoop(attempt, script, listing, sleeps) ==
    IF attempt > max_retries
    THEN [result |-> FALSE, contacts |-> attempt - 1, sleeps |-> sleeps, raised |-> FALSE]
    ELSE IF script[attempt] = "ok"
    THEN [result |-> listing, contacts |-> attempt, sleeps |-> sleeps, raised |-> FALSE]
    ELSE IF script[attempt] = "rhe"
    THEN ProbeLoop(attempt + 1, script, listing, Append(sleeps, attempt * 2))
    ELSE [result |-> FALSE, contacts |-> attempt, sleeps |-> sleeps, raised |-> FALSE]

_collection_exists(script) ==
    LET r == ProbeLoop(1, script, collection, <<>>)
    IN  [result |-> r.result, contacts |-> r.contacts, sleeps |-> r.sleeps,
         raised |-> r.raised, script |-> script, listing |-> collection, ran |-> TRUE]

NoProbe ==
    [result |-> FALSE, contacts |-> 0, sleeps |-> <<>>, raised |-> FALSE,
     script |-> [i \in 1..ScriptLen |-> "ok"], listing |-> FALSE, ran |-> FALSE]

(* class Memory: text, metadata (the payload without "text"), score *)
Memory(hit) ==
    [text |-> hit.payload.text,
     metadata |-> [id |-> hit.payload.id, timestamp |-> hit.payload.timestamp],
     score |-> hit.score]

NoMemory == [text |-> NoneStr, metadata |-> [id |-> NoId, timestamp |-> NoTs], score |-> -1]

(* client.search(query_vector, limit=k): the k nearest points by cosine    *)
(* score, best first; the index orders equal scores as it likes.           *)
Score(query, id) == Sim(query, points[id].text)

Min(a, b) == IF a < b THEN a ELSE b

Ties == {t \in [Ids -> 1..MaxIds] : \A a, b \in Ids : a # b => t[a] # t[b]}

Before(query, tie, a, b) ==
    \/ Score(query, a) > Score(query, b)
    \/ Score(query, a) = Score(query, b) /\ tie[a] < tie[b]

IndexSearch(query, k, tie) ==
    LET n == Min(k, Cardinality(DOMAIN points))
        s == CHOOSE r \in [1..n -> DOMAIN points] :
                 /\ \A i, j \in 1..n : i < j => Before(query, tie, r[i], r[j])
                 /\ \A id \in DOMAIN points \ {r[i] : i \in 1..n} :
                      \A i \in 1..n : Before(query, tie, r[i], id)
    IN  [i \in 1..n |-> [id |-> s[i], payload |-> points[s[i]],
                         score |-> Score(query, s[i])]]

(* Variant of search_memories that searches whatever the probe said. *)
SearchIgnoringProbe(query, k, script, encOk, searchOk, tie) ==
    LET hits == IndexSearch(query, k, tie)
    IN  IF ~encOk
        THEN [results |-> <<>>, searched |-> 0, answered |-> 0, response |-> <<>>]
        ELSE IF ~searchOk \/ ~collection
        THEN [results |-> <<>>, searched |-> 1, answered |-> 0, response |-> <<>>]
        ELSE [results |-> [i \in 1..Len(hits) |-> Memory(hits[i])],
              searched |-> 1, answered |-> 1, response |-> hits]

(* Variant of search_memories that asks the index for one hit too many. *)
SearchOneTooMany(query, k, script, encOk, searchOk, tie) ==
    LET p == _collection_exists(script)
        hits == IndexSearch(query, k + 1, tie)
    IN  IF ~p.result \/ ~encOk
        THEN [results |-> <<>>, searched |-> 0, answered |-> 0, response |-> <<>>]
        ELSE IF ~searchOk
        THEN [results |-> <<>>, searched |-> 1, answered |-> 0, response |-> <<>>]
        ELSE [results |-> [i \in 1..Len(hits) |-> Memory(hits[i])],
              searched |-> 1, answered |-> 1, response |-> hits]

(* lines 163-183 *)
(* search_memories(query, k): probe, encode, client.search(limit=k), wrap the hits *)
search_memories(query, k, script, encOk, searchOk, tie) ==
    LET p == _collection_exists(script)
        hits == IndexSearch(query, k, tie)
    IN  IF ~p.result
        THEN [results |-> <<>>, searched |-> 0, answered |-> 0, response |-> <<>>]
        ELSE IF ~encOk
        THEN [results |-> <<>>, searched |-> 0, answered |-> 0, response |-> <<>>]
        ELSE IF ~searchOk
        THEN [results |-> <<>>, searched |-> 1, answered |-> 0, response |-> <<>>]
        ELSE [results |-> [i \in 1..Len(hits) |-> Memory(hits[i])],
              searched |-> 1, answered |-> 1, response |-> hits]

(* find_similar_memory(text): the nearest neighbour if its score reaches   *)
(* the threshold, else None                                                *)
find_similar_memory(text, script, encOk, searchOk, tie) ==
    LET r == search_memories(text, 1, script, encOk, searchOk, tie)
    IN  [search |-> r,
         similar |-> IF Len(r.results) > 0 /\ r.results[1].score >= SIMILARITY_THRESHOLD
                     THEN r.results[1] ELSE NoMemory]

(* point_id = metadata.get("id", str(abs(hash(text)))) *)
HashId(text) == MaxIds + (CHOOSE i \in 1..3 : <<"f1", "f2", "f3">>[i] = text)

PointId(md, text) == IF md.id # NoId THEN md.id ELSE HashId(text)

(* Variant of Upsert that never overwrites a point. *)
UpsertInsertOnly(p, id, payload) ==
    [i \in DOMAIN p \cup {id} |-> IF i \in DOMAIN p THEN p[i] ELSE payload]

(* client.upsert(points=[PointStruct(id, vector, payload={"text": text, **metadata})]) *)
Upsert(p, id, payload) ==
    [i \in DOMAIN p \cup {id} |-> IF i = id THEN payload ELSE p[i]]

-----------------------------------------------------------------------------
(* MemoryManager *)

MsgTypes == {"human", "ai"}
Contents == {"", "hello"}
Formatted == Texts \cup {"", NoneStr}

(* what self.llm.ainvoke(prompt) does: raises, returns something that is   *)
(* not a MemoryAnalysis, or returns a MemoryAnalysis                       *)
LlmOutcomes ==
    {[kind |-> "raise", is_important |-> FALSE, formatted_memory |-> NoneStr],
     [kind |-> "other", is_important |-> TRUE, formatted_memory |-> "f1"]}
    \cup [kind : {"analysis"}, is_important : BOOLEAN, formatted_memory : Formatted]

(* Variant of _analyze_memory without the isinstance check. *)
AnalyzeUnchecked(out) ==
    IF out.kind = "raise"
    THEN [is_important |-> FALSE, formatted_memory |-> NoneStr]
    ELSE [is_important |-> out.is_important, formatted_memory |-> out.formatted_memory]

(* lines 42-62 *)
_analyze_memory(out) ==
    IF out.kind = "analysis"
    THEN [is_important |-> out.is_important, formatted_memory |-> out.formatted_memory]
    ELSE [is_important |-> FALSE, formatted_memory |-> NoneStr]

Truthy(s) == s # "" /\ s # NoneStr

-----------------------------------------------------------------------------
(* State *)

EmptyPoints == [i \in {} |-> 0]
NoAnalysis == [is_important |-> FALSE, formatted_memory |-> NoneStr]
NoMetadata == [id |-> NoId, timestamp |-> NoTs]
NoCalls == [llm |-> 0, lookups |-> 0, search |-> 0, answered |-> 0, absent |-> 0, create |-> 0,
            upsert |-> 0]
NoLlm == [kind |-> "none", is_important |-> FALSE, formatted_memory |-> NoneStr]
NoEnv == [script |-> [i \in 1..ScriptLen |-> "ok"], encOk |-> TRUE, searchOk |-> TRUE,
          ran |-> FALSE]
NoPre == [collection |-> FALSE, points |-> EmptyPoints]
NoRet == [status |-> "none", value |-> <<>>, wrote |-> NoId]
NoOp == [name |-> "none", mtype |-> "-", content |-> "", k |-> 0, id |-> NoId]

Returned(value, wrote) == [status |-> "returned", value |-> value, wrote |-> wrote]
Raised == [status |-> "raised", value |-> <<>>, wrote |-> NoId]

NoImgOp == [name |-> "none", prompt |-> <<>>, output_path |-> "", chat_history |-> NoneStr]
NoLlmCall == [caller |-> "none", attempts |-> 0, raised |-> FALSE]
NoImgRet == [status |-> "none", exc |-> "", value |-> NoneStr]

ImgInit ==
    /\ ipc = "idle"
    /\ iop = NoImgOp
    /\ llm = NoLlmCall
    /\ enhanced_prompt = <<>>
    /\ requests = <<>>
    /\ saved = [f \in {} |-> 0]
    /\ iret = NoImgRet

(* the invocations of the webhook handler that the model follows *)
Handlers == {1, 2}

NoPayload == [kind |-> "none", id |-> "", caption |-> <<>>]
NoState == [messages |-> <<>>, workflow |-> NoneStr, audio_buffer |-> 0, image_path |-> 0]
NoHandler ==
    [pc |-> "idle", payload |-> NoPayload, content |-> <<>>, local |-> NoState,
     output_state |-> NoState, posts |-> <<>>, status |-> 0, body |-> ""]

WaInit ==
    /\ thread = NoState
    /\ files = {}
    /\ hnd = [h \in Handlers |-> NoHandler]

NoVs == [instance |-> 0, initialized |-> FALSE, created |-> 0, models |-> 0, clients |-> 0,
         cached |-> 0, held |-> {}, raised |-> FALSE, exc |-> ""]
NoFmt == [memories |-> <<>>, formatted |-> <<>>, returned |-> FALSE]
(* a session before on_chat_start *)
NoCl == [pc |-> "new", text |-> <<>>, images |-> 0, elements |-> 0, content |-> <<>>,
         local |-> NoState, reply |-> <<>>, msg |-> <<>>,
         output_state |-> NoState, sent |-> <<>>, turn |-> 0]

(* len(model.encode(...)) of the process's EMBEDDING_MODEL *)
ModelDim == "model"

(* client.search and client.upsert raise when the index does not answer,   *)
(* and when the size of the vector is not the size of the collection       *)
Sized(ok) == ok /\ dim = ModelDim

(* no verify token in the environment, no verification request yet *)
NoVf == [WHATSAPP_VERIFY_TOKEN |-> NoneStr, WEBHOOK_VERIFY_TOKEN |-> NoneStr,
         mode |-> NoneStr, token |-> NoneStr, challenge |-> NoneStr,
         status |-> 0, content |-> ""]

(* a session without an audio_buffer.  has_buffer: user_session holds a    *)
(* BytesIO; since: the data of the chunks since the last start chunk, in   *)
(* arrival order (read: when on_audio_end read the buffer); chunk: how the *)
(* last on_audio_chunk ended; pc and raised are those of on_audio_end      *)
NoAu == [pc |-> "idle", has_buffer |-> FALSE, audio_buffer |-> <<>>, position |-> 0,
         started |-> FALSE, since |-> <<>>, read |-> <<>>, chunks |-> 0, chunk |-> "none",
         ends |-> 0, audio_data |-> <<>>, transcribed |-> <<>>, transcription |-> <<>>,
         local |-> NoState, output_state |-> NoState, speech |-> <<>>, sent |-> <<>>,
         raised |-> ""]

AppInit ==
    /\ vs = NoVs
    /\ fmt = NoFmt
    /\ cl = NoCl
    /\ vf = NoVf
    /\ au = NoAu
    /\ dim = IF collection THEN ModelDim ELSE "none"

Ready == pc = "idle" /\ ipc = "idle"

Init ==
    /\ collection = FALSE
    /\ points = EmptyPoints
    /\ pc = "idle"
    /\ op = NoOp
    /\ pre = NoPre
    /\ llmOut = NoLlm
    /\ analysis = NoAnalysis
    /\ metadata = NoMetadata
    /\ similar = NoMemory
    /\ similar_memory = NoMemory
    /\ env = NoEnv
    /\ probe = NoProbe
    /\ response = <<>>
    /\ calls = NoCalls
    /\ ret = NoRet
    /\ ImgInit
    /\ WaInit
    /\ AppInit

(* what every call starts from *)
Fresh ==
    /\ pre' = [collection |-> collection, points |-> points]
    /\ llmOut' = NoLlm
    /\ analysis' = NoAnalysis
    /\ similar' = NoMemory
    /\ similar_memory' = NoMemory
    /\ env' = NoEnv
    /\ response' = <<>>
    /\ calls' = NoCalls
    /\ probe' = probe

-----------------------------------------------------------------------------
(* MemoryManager.extract_and_store_memories *)

(* Variant of extract_and_store_memories that does not look at the message type. *)
ExtractAnyType(mtype, content) ==
    /\ UNCHANGED others
    /\ Ready
    /\ Cardinality(DOMAIN points) < MaxIds
    /\ Fresh
    /\ op' = [name |-> "extract", mtype |-> mtype, content |-> content, k |-> 0, id |-> NoId]
    /\ metadata' = NoMetadata
    /\ IF content = ""
       THEN pc' = "done" /\ ret' = Returned(<<>>, NoId)
       ELSE pc' = "analyze" /\ ret' = NoRet
    /\ UNCHANGED <<collection, points>>

(* lines 64-79: only human messages with content are analysed.  The call  *)
(* is taken while the id space still has an id for uuid4 to return.        *)
extract_and_store_memories(mtype, content) ==
    /\ UNCHANGED others
    /\ Ready
    /\ Cardinality(DOMAIN points) < MaxIds
    /\ Fresh
    /\ op' = [name |-> "extract", mtype |-> mtype, content |-> content, k |-> 0, id |-> NoId]
    /\ metadata' = NoMetadata
    /\ IF mtype # "human" \/ content = ""
       THEN pc' = "done" /\ ret' = Returned(<<>>, NoId)
       ELSE pc' = "analyze" /\ ret' = NoRet
    /\ UNCHANGED <<collection, points>>

(* lines 82-88 and 124-126: analyse, go on only with an important, formatted fact *)
AnalyzeMemory(out) ==
    /\ UNCHANGED others
    /\ pc = "analyze"
    /\ llmOut' = out
    /\ analysis' = _analyze_memory(out)
    /\ calls' = [calls EXCEPT !.llm = @ + 1]
    /\ IF analysis'.is_important /\ Truthy(analysis'.formatted_memory)
       THEN pc' = "ext_find" /\ ret' = ret
       ELSE pc' = "done" /\ ret' = Returned(<<>>, NoId)
    /\ UNCHANGED <<collection, points, op, pre, metadata, similar, similar_memory, env,
                   probe, response>>

Count(c, r) ==
    [c EXCEPT !.lookups = @ + 1, !.search = @ + r.searched, !.answered = @ + r.answered]

(* Variant of ExtractFindSimilar that stores although a similar memory exists. *)
ExtractFindNoSkip(script, encOk, searchOk, tie) ==
    /\ UNCHANGED others
    /\ pc = "ext_find"
    /\ LET f == find_similar_memory(analysis.formatted_memory, script, encOk, Sized(searchOk), tie)
       IN  /\ similar' = f.similar
           /\ calls' = Count(calls, f.search)
    /\ pc' = "ext_store"
    /\ ret' = ret
    /\ UNCHANGED <<collection, points, op, pre, llmOut, analysis, metadata, similar_memory,
                   env, probe, response>>

(* lines 89-104: look for a similar memory (an exception would count as    *)
(* none); return when there is one                                         *)
ExtractFindSimilar(script, encOk, searchOk, tie) ==
    /\ UNCHANGED others
    /\ pc = "ext_find"
    /\ LET f == find_similar_memory(analysis.formatted_memory, script, encOk, Sized(searchOk), tie)
       IN  /\ similar' = f.similar
           /\ calls' = Count(calls, f.search)
           /\ IF f.similar # NoMemory
              THEN pc' = "done" /\ ret' = Returned(<<>>, NoId)
              ELSE pc' = "ext_store" /\ ret' = ret
    /\ UNCHANGED <<collection, points, op, pre, llmOut, analysis, metadata, similar_memory,
                   env, probe, response>>

(* lines 106-118: memory_id = str(uuid.uuid4()), timestamp = now, and the  *)
(* call of store_memory; uuid4 gives an id no point has                    *)
ExtractStoreNew(uuid, now) ==
    /\ UNCHANGED others
    /\ pc = "ext_store"
    /\ uuid \notin DOMAIN points
    /\ metadata' = [id |-> uuid, timestamp |-> now]
    /\ pc' = "store_ensure"
    /\ UNCHANGED <<collection, points, op, pre, llmOut, analysis, similar, similar_memory,
                   env, probe, response, calls, ret>>

-----------------------------------------------------------------------------
(* VectorStore.store_memory *)

(* a caller other than the manager: store_memory(text, {"id", "timestamp"}) *)
store_memory(text, id, ts) ==
    /\ UNCHANGED others
    /\ Ready
    /\ Fresh
    /\ op' = [name |-> "store", mtype |-> "-", content |-> text, k |-> 0, id |-> id]
    /\ metadata' = [id |-> id, timestamp |-> ts]
    /\ pc' = "store_ensure"
    /\ ret' = NoRet
    /\ UNCHANGED <<collection, points>>

(* the caller repeats the store_memory call that has just returned, with   *)
(* the same text and the same id, at a later time; the first call found    *)
(* the index reachable and its write was acknowledged                      *)
store_memory_again(ts) ==
    /\ UNCHANGED others
    /\ pc = "done"
    /\ op.name = "store"
    /\ ret.wrote # NoId
    /\ calls.answered = 1
    /\ Fresh
    /\ op' = [op EXCEPT !.name = "store_again"]
    /\ metadata' = [id |-> op.id, timestamp |-> ts]
    /\ pc' = "store_ensure"
    /\ ret' = NoRet
    /\ UNCHANGED <<collection, points>>

StoreText == IF op.name = "extract" THEN analysis.formatted_memory ELSE op.content

(* Variant of StoreEnsureCollection that goes on when the creation failed. *)
StoreEnsureNoSkip(script, create) ==
    /\ UNCHANGED notmem
    /\ pc = "store_ensure"
    /\ create = "ok" => ~collection
    /\ LET p == _collection_exists(script)
           asked == [calls EXCEPT !.absent = 1]
       IN  IF p.result
           THEN /\ calls' = calls
                /\ pc' = "store_find" /\ ret' = ret /\ collection' = collection /\ dim' = dim
           ELSE IF create = "encfail"
           THEN /\ calls' = asked
                /\ pc' = "store_find" /\ ret' = ret /\ collection' = collection
                /\ dim' = dim
           ELSE IF create = "fail"
           THEN /\ calls' = [asked EXCEPT !.create = @ + 1]
                /\ pc' = "store_find" /\ ret' = ret /\ collection' = collection
                /\ dim' = dim
           ELSE /\ calls' = [asked EXCEPT !.create = @ + 1]
                /\ pc' = "store_find" /\ ret' = ret /\ collection' = TRUE /\ dim' = ModelDim
    /\ UNCHANGED <<points, op, pre, llmOut, analysis, metadata, similar, similar_memory,
                   env, probe, response>>

(* lines 135-141: create the collection when the probe does not find it;  *)
(* the index refuses to create a collection that exists                    *)
StoreEnsureCollection(script, create) ==
    /\ UNCHANGED notmem
    /\ pc = "store_ensure"
    /\ create = "ok" => ~collection
    /\ LET p == _collection_exists(script)
           asked == [calls EXCEPT !.absent = 1]
       IN  IF p.result
           THEN /\ calls' = calls
                /\ pc' = "store_find" /\ ret' = ret /\ collection' = collection /\ dim' = dim
           ELSE IF create = "encfail"
           THEN /\ calls' = asked
                /\ pc' = "done" /\ ret' = Returned(<<>>, NoId) /\ collection' = collection
                /\ dim' = dim
           ELSE IF create = "fail"
           THEN /\ calls' = [asked EXCEPT !.create = @ + 1]
                /\ pc' = "done" /\ ret' = Returned(<<>>, NoId) /\ collection' = collection
                /\ dim' = dim
           ELSE /\ calls' = [asked EXCEPT !.create = @ + 1]
                /\ pc' = "store_find" /\ ret' = ret /\ collection' = TRUE /\ dim' = ModelDim
    /\ UNCHANGED <<points, op, pre, llmOut, analysis, metadata, similar, similar_memory,
                   env, probe, response>>

(* lines 143-145: a similar memory with an id takes over the id *)
StoreFindSimilar(script, encOk, searchOk, tie) ==
    /\ UNCHANGED others
    /\ pc = "store_find"
    /\ LET f == find_similar_memory(StoreText, script, encOk, Sized(searchOk), tie)
       IN  /\ similar_memory' = f.similar
           /\ calls' = Count(calls, f.search)
           /\ metadata' = IF f.similar # NoMemory /\ f.similar.metadata.id # NoId
                          THEN [metadata EXCEPT !.id = f.similar.metadata.id]
                          ELSE metadata
    /\ pc' = "store_upsert"
    /\ UNCHANGED <<collection, points, op, pre, llmOut, analysis, similar, env, ret,
                   probe, response>>

(* Variant of ManagerExcept without the except clause. *)
ManagerNoExcept(result) == result

(* memory_manager.py lines 107-123: try: store_memory(...) except Exception: log *)
ManagerExcept(result) ==
    IF op.name = "extract" /\ result.status = "raised"
    THEN Returned(<<>>, NoId)
    ELSE result

(* lines 147-161: an exception of model.encode is not caught here, one of  *)
(* client.upsert is                                                        *)
StoreUpsert(encOk, upsertOk) ==
    /\ UNCHANGED others
    /\ pc = "store_upsert"
    /\ pc' = "done"
    /\ IF ~encOk
       THEN /\ calls' = calls
            /\ ret' = ManagerExcept(Raised)
            /\ points' = points
       ELSE /\ calls' = [calls EXCEPT !.upsert = @ + 1]
            /\ ret' = Returned(<<>>, IF Sized(upsertOk) THEN PointId(metadata, StoreText)
                                     ELSE NoId)
            /\ points' = IF Sized(upsertOk)
                         THEN Upsert(points, PointId(metadata, StoreText),
                                     [text |-> StoreText, id |-> metadata.id,
                                      timestamp |-> metadata.timestamp])
                         ELSE points
    /\ UNCHANGED <<collection, op, pre, llmOut, analysis, metadata, similar,
                   similar_memory, env, probe, response>>

-----------------------------------------------------------------------------
(* MemoryManager.get_relevant_memories *)

(* lines 128-131; k is settings.MEMORY_TOP_K *)
get_relevant_memories(context, k) ==
    /\ UNCHANGED others
    /\ Ready
    /\ Fresh
    /\ op' = [name |-> "get", mtype |-> "-", content |-> context, k |-> k, id |-> NoId]
    /\ metadata' = NoMetadata
    /\ pc' = "get_search"
    /\ ret' = NoRet
    /\ UNCHANGED <<collection, points>>

(* lines 132-149: the texts of what search_memories returns *)
GetSearch(script, encOk, searchOk, tie) ==
    /\ UNCHANGED others
    /\ pc = "get_search"
    /\ env' = [script |-> script, encOk |-> encOk, searchOk |-> searchOk, ran |-> TRUE]
    /\ LET r == search_memories(op.content, op.k, script, encOk, Sized(searchOk), tie)
       IN  /\ response' = r.response
           /\ calls' = Count(calls, r)
           /\ ret' = Returned([i \in 1..Len(r.results) |-> r.results[i].text], NoId)
    /\ pc' = "done"
    /\ UNCHANGED <<collection, points, op, pre, llmOut, analysis, metadata, similar,
                   similar_memory, probe>>

-----------------------------------------------------------------------------

(* the call has returned (or raised) to its caller; the next call can start *)
Return ==
    /\ UNCHANGED others
    /\ pc = "done"
    /\ pc' = "idle"
    /\ op' = NoOp
    /\ pre' = NoPre
    /\ llmOut' = NoLlm
    /\ analysis' = NoAnalysis
    /\ metadata' = NoMetadata
    /\ similar' = NoMemory
    /\ similar_memory' = NoMemory
    /\ env' = NoEnv
    /\ response' = <<>>
    /\ calls' = NoCalls
    /\ ret' = NoRet
    /\ UNCHANGED <<collection, points, probe>>

(* The answers of one search_memories call.  model.encode raises before    *)
(* client.search is reached and a failing search ranks nothing, so the     *)
(* answers that are never asked for are fixed.                             *)
SearchAnswers(scripts) ==
    {i \in [script : scripts, encOk : BOOLEAN, searchOk : BOOLEAN, tie : Ties] :
        (~i.encOk \/ ~i.searchOk) => (i.tie = [a \in Ids |-> a] /\ (i.encOk \/ i.searchOk))}

Next ==
    \/ \E mtype \in MsgTypes, content \in Contents :
         extract_and_store_memories(mtype, content)
    \/ \E out \in LlmOutcomes : AnalyzeMemory(out)
    \/ \E i \in SearchAnswers(EndScripts) :
         ExtractFindSimilar(i.script, i.encOk, i.searchOk, i.tie)
    \/ \E uuid \in Ids, now \in Timestamps : ExtractStoreNew(uuid, now)
    \/ \E text \in Texts, id \in Ids, ts \in Timestamps : store_memory(text, id, ts)
    \/ \E ts \in Timestamps : store_memory_again(ts)
    \/ \E script \in EndScripts, create \in {"ok", "encfail", "fail"} :
         StoreEnsureCollection(script, create)
    \/ \E i \in SearchAnswers(EndScripts) :
         StoreFindSimilar(i.script, i.encOk, i.searchOk, i.tie)
    \/ \E encOk, upsertOk \in BOOLEAN : StoreUpsert(encOk, upsertOk)
    \/ \E context \in Texts, k \in 1..MaxTopK : get_relevant_memories(context, k)
    \/ \E i \in SearchAnswers(ProbeScripts) :
         GetSearch(i.script, i.encOk, i.searchOk, i.tie)
    \/ Return

Spec == Init /\ [][Next]_vars

(* The store path of a process that finds a collection made earlier, with  *)
(* vectors of the size of its own model or of another size.                *)
InitDimension ==
    /\ collection = TRUE
    /\ points = EmptyPoints
    /\ pc = "idle"
    /\ op = NoOp
    /\ pre = NoPre
    /\ llmOut = NoLlm
    /\ analysis = NoAnalysis
    /\ metadata = NoMetadata
    /\ similar = NoMemory
    /\ similar_memory = NoMemory
    /\ env = NoEnv
    /\ probe = NoProbe
    /\ response = <<>>
    /\ calls = NoCalls
    /\ ret = NoRet
    /\ ImgInit
    /\ WaInit
    /\ vs = NoVs
    /\ fmt = NoFmt
    /\ cl = NoCl
    /\ vf = NoVf
    /\ au = NoAu
    /\ dim \in {ModelDim, "other"}

NextDimension ==
    \/ \E text \in Texts, id \in Ids, ts \in Timestamps : store_memory(text, id, ts)
    \/ \E script \in EndScripts, create \in {"ok", "encfail", "fail"} :
         StoreEnsureCollection(script, create)
    \/ \E i \in SearchAnswers(EndScripts) :
         StoreFindSimilar(i.script, i.encOk, i.searchOk, i.tie)
    \/ \E encOk, upsertOk \in BOOLEAN : StoreUpsert(encOk, upsertOk)
    \/ Return

SpecDimension == InitDimension /\ [][NextDimension]_vars

-----------------------------------------------------------------------------
(* MemoryManager.format_memories_for_prompt.  A string is the sequence of  *)
(* its pieces; "\n" is a piece of its own.                                 *)

MaxMemories == 3    \* length of the list of memories

FmtTexts == Texts \cup {""}

MemoryLists == UNION {[1..n -> FmtTexts] : n \in 0..MaxMemories}

RECURSIVE join(_, _)
(* "\n".join(lines) *)
join(sep, lines) ==
    IF Len(lines) = 0 THEN <<>>
    ELSE IF Len(lines) = 1 THEN lines[1]
    ELSE lines[1] \o <<sep>> \o join(sep, Tail(lines))

(* Variant of FormatMemories that ends every line with a newline. *)
FormatLinesTerminated(memories) ==
    IF Len(memories) = 0 THEN <<>>
    ELSE join("", [i \in 1..Len(memories) |-> <<"- ", memories[i], "\n">>])

(* lines 153-157: "" for no memories, else "\n".join(f"- {m}" for m in memories) *)
FormatMemories(memories) ==
    IF Len(memories) = 0 THEN <<>>
    ELSE join("\n", [i \in 1..Len(memories) |-> <<"- ", memories[i]>>])

format_memories_for_prompt ==
    /\ ~fmt.returned
    /\ fmt' = [fmt EXCEPT !.formatted = FormatMemories(fmt.memories), !.returned = TRUE]
    /\ UNCHANGED notapp
    /\ UNCHANGED <<vs, cl, vf, au>>

InitFormat ==
    /\ collection = FALSE
    /\ points = EmptyPoints
    /\ pc = "idle"
    /\ op = NoOp
    /\ pre = NoPre
    /\ llmOut = NoLlm
    /\ analysis = NoAnalysis
    /\ metadata = NoMetadata
    /\ similar = NoMemory
    /\ similar_memory = NoMemory
    /\ env = NoEnv
    /\ probe = NoProbe
    /\ response = <<>>
    /\ calls = NoCalls
    /\ ret = NoRet
    /\ ImgInit
    /\ WaInit
    /\ vs = NoVs
    /\ cl = NoCl
    /\ vf = NoVf
    /\ au = NoAu
    /\ dim = "none"
    /\ fmt \in [memories : MemoryLists, formatted : {<<>>}, returned : {FALSE}]

NextFormat == format_memories_for_prompt

SpecFormat == InitFormat /\ [][NextFormat]_vars

-----------------------------------------------------------------------------
(* The VectorStore singleton (vector_store.py 43-78 and 186-188).  Objects *)
(* are numbered in the order object.__new__ makes them; 0 is None.         *)

MaxBuilds == 3    \* constructions of the embedding model the model follows

(* get_memory_manager() makes a MemoryManager per call *)
Managers == {"MemoryManager a", "MemoryManager b", "MemoryManager c"}

Callers == {"VectorStore", "get_vector_store"} \cup Managers

BuildOutcomes == {"ok", "model", "env", "client"}

(* lines 46-49 *)
__new__(v) ==
    IF v.instance = 0
    THEN [v EXCEPT !.instance = v.created + 1, !.created = v.created + 1]
    ELSE v

(* Variant of __init__ without the _initialized guard. *)
InitUnguarded(v, outcome) ==
    IF outcome = "model" THEN [v EXCEPT !.raised = TRUE, !.exc = outcome]
    ELSE IF outcome \in {"env", "client"}
    THEN [v EXCEPT !.models = @ + 1, !.raised = TRUE, !.exc = outcome]
    ELSE [v EXCEPT !.models = @ + 1, !.clients = @ + 1, !.initialized = TRUE,
                   !.raised = FALSE, !.exc = ""]

(* lines 51-78: SentenceTransformer(...), _validate_env_vars(),            *)
(* QdrantClient(...), each of which can raise (exc: which one did), then   *)
(* _initialized = True                                                     *)
__init__(v, outcome) ==
    IF v.initialized THEN [v EXCEPT !.raised = FALSE, !.exc = ""]
    ELSE IF outcome = "model" THEN [v EXCEPT !.raised = TRUE, !.exc = outcome]
    ELSE IF outcome \in {"env", "client"}
    THEN [v EXCEPT !.models = @ + 1, !.raised = TRUE, !.exc = outcome]
    ELSE [v EXCEPT !.models = @ + 1, !.clients = @ + 1, !.initialized = TRUE,
                   !.raised = FALSE, !.exc = ""]

(* VectorStore(): __new__, then __init__ on what it returned *)
Construct(v, outcome) == __init__(__new__(v), outcome)

(* the caller keeps the object unless the construction raised *)
Hold(v, caller, object) ==
    IF v.raised THEN v ELSE [v EXCEPT !.held = @ \cup {<<caller, object>>}]

(* a caller constructs VectorStore() *)
VectorStore(outcome) ==
    /\ vs.initialized \/ vs.models < MaxBuilds
    /\ LET v == Construct(vs, outcome)
       IN  vs' = Hold(v, "VectorStore", v.instance)
    /\ UNCHANGED notapp
    /\ UNCHANGED <<fmt, cl, vf, au>>

(* lines 186-188: @lru_cache keeps the value of the first call that returned *)
get_vector_store(caller, outcome) ==
    /\ vs.initialized \/ vs.models < MaxBuilds
    /\ IF vs.cached # 0
       THEN vs' = Hold([vs EXCEPT !.raised = FALSE, !.exc = ""], caller, vs.cached)
       ELSE LET v == Construct(vs, outcome)
            IN  vs' = Hold([v EXCEPT !.cached = IF v.raised THEN 0 ELSE v.instance],
                           caller, v.instance)
    /\ UNCHANGED notapp
    /\ UNCHANGED <<fmt, cl, vf, au>>

NextSingleton ==
    \/ \E outcome \in BuildOutcomes : VectorStore(outcome)
    \/ \E caller \in Callers \ {"VectorStore"}, outcome \in BuildOutcomes :
         get_vector_store(caller, outcome)

SpecSingleton == Init /\ [][NextSingleton]_vars

-----------------------------------------------------------------------------
(* The collection probe on its own: any answers of the index, collection   *)
(* listed or not.                                                          *)

InitProbe ==
    /\ collection \in BOOLEAN
    /\ points = EmptyPoints
    /\ pc = "idle"
    /\ op = NoOp
    /\ pre = NoPre
    /\ llmOut = NoLlm
    /\ analysis = NoAnalysis
    /\ metadata = NoMetadata
    /\ similar = NoMemory
    /\ similar_memory = NoMemory
    /\ env = NoEnv
    /\ probe = NoProbe
    /\ response = <<>>
    /\ calls = NoCalls
    /\ ret = NoRet
    /\ ImgInit
    /\ WaInit
    /\ AppInit

ProbeCall(script) ==
    /\ UNCHANGED others
    /\ probe' = _collection_exists(script)
    /\ UNCHANGED <<collection, points, pc, op, pre, llmOut, analysis, metadata, similar,
                   similar_memory, env, response, calls, ret>>

NextProbe == \E script \in Scripts : ProbeCall(script)

SpecProbe == InitProbe /\ [][NextProbe]_vars

-----------------------------------------------------------------------------
(* TextToImage (modules/image/text_to_image.py) and the ChatGroq clients.  *)
(* Prompts are sequences of characters; the LLM and the renderer are       *)
(* external: the environment chooses what each request meets.              *)

llm_max_retries == 2

(* what successive requests of one chain.ainvoke meet: an answer, a        *)
(* failure the client retries (connection, timeout, 429, 5xx), or one it   *)
(* does not retry                                                          *)
LlmReplies == {"ok", "transient", "fatal"}
LlmScriptLen == llm_max_retries + 2
LlmScripts ==
    {s \in [1..LlmScriptLen -> LlmReplies] :
        \A i, j \in 1..LlmScriptLen : (i < j /\ s[i] # "transient") => s[j] = "ok"}

(* One chain.ainvoke of a client built as ChatGroq(..., max_retries=2)     *)
(* (memory_manager.py 39, text_to_image.py 103 and 138).  The client is a  *)
(* library outside the repository; what the repository fixes is the        *)
(* parameter: a request that failed may be sent again, max_retries times   *)
(* at most.  Which failures are sent again is the environment's choice     *)
(* ("transient" in the script); the call raises when a failure is not.     *)
RECURSIVE ClientRequest(_, _)
ClientRequest(attempt, script) ==
    IF script[attempt] = "ok"
    THEN [attempts |-> attempt, raised |-> FALSE]
    ELSE IF script[attempt] = "transient" /\ attempt <= llm_max_retries
    THEN ClientRequest(attempt + 1, script)
    ELSE [attempts |-> attempt, raised |-> TRUE]

LlmCall(caller, r) == [caller |-> caller, attempts |-> r.attempts, raised |-> r.raised]

(* the characters str.strip() removes (str.isspace): U+0009..U+000D,       *)
(* U+001C..U+001F, U+0020, U+0085, U+00A0, U+1680, U+2000..U+200A, U+2028, *)
(* U+2029, U+202F, U+205F, U+3000.  A character outside ASCII is written   *)
(* by its name, "U+" and the code point in four hexadecimal digits.        *)
Whitespace ==
    {"\t", "\n", "", "\f", "\r", "", "", "", "", " ", "U+0085", "U+00A0",
     "U+1680", "U+2000", "U+2001", "U+2002", "U+2003", "U+2004", "U+2005",
     "U+2006", "U+2007", "U+2008", "U+2009", "U+200A", "U+2028", "U+2029",
     "U+202F", "U+205F", "U+3000"}

(* s.strip() is empty *)
Blank(s) == \A i \in 1..Len(s) : s[i] \in Whitespace

(* urllib.parse.quote: the characters that stay as they are *)
SafeChars ==
    {"a", "b", "c", "d", "e", "f", "g", "h", "i", "j", "k", "l", "m", "n", "o", "p", "q",
     "r", "s", "t", "u", "v", "w", "x", "y", "z", "A", "B", "C", "D", "E", "F", "G", "H",
     "I", "J", "K", "L", "M", "N", "O", "P", "Q", "R", "S", "T", "U", "V", "W", "X", "Y",
     "Z", "0", "1", "2", "3", "4", "5", "6", "7", "8", "9", "_", ".", "-", "~", "/"}

(* ord(c) of the characters quote encodes that the model writes: the      *)
(* ASCII characters that are not safe, the whitespace characters, e with   *)
(* acute accent, u with diaeresis and the waving hand                      *)
CodePoint ==
    "\t" :> 9 @@ "\n" :> 10 @@ "" :> 11 @@ "\f" :> 12 @@
    "\r" :> 13 @@ "" :> 28 @@ "" :> 29 @@ "" :> 30 @@
    "" :> 31 @@ " " :> 32 @@ "!" :> 33 @@ "\"" :> 34 @@
    "#" :> 35 @@ "$" :> 36 @@ "%" :> 37 @@ "&" :> 38 @@
    "'" :> 39 @@ "(" :> 40 @@ ")" :> 41 @@ "*" :> 42 @@
    "+" :> 43 @@ "," :> 44 @@ ":" :> 58 @@ ";" :> 59 @@
    "<" :> 60 @@ "=" :> 61 @@ ">" :> 62 @@ "?" :> 63 @@
    "@" :> 64 @@ "[" :> 91 @@ "\\" :> 92 @@ "]" :> 93 @@
    "^" :> 94 @@ "U+0060" :> 96 @@ "{" :> 123 @@ "|" :> 124 @@
    "}" :> 125 @@ "U+0085" :> 133 @@ "U+00A0" :> 160 @@ "U+00E9" :> 233 @@
    "U+00FC" :> 252 @@ "U+1680" :> 5760 @@ "U+2000" :> 8192 @@ "U+2001" :> 8193 @@
    "U+2002" :> 8194 @@ "U+2003" :> 8195 @@ "U+2004" :> 8196 @@ "U+2005" :> 8197 @@
    "U+2006" :> 8198 @@ "U+2007" :> 8199 @@ "U+2008" :> 8200 @@ "U+2009" :> 8201 @@
    "U+200A" :> 8202 @@ "U+2028" :> 8232 @@ "U+2029" :> 8233 @@ "U+202F" :> 8239 @@
    "U+205F" :> 8287 @@ "U+3000" :> 12288 @@ "U+1F44B" :> 128075

(* %XX of each byte of the character's UTF-8 encoding *)
PercentEncoded ==
    LET HexDigits == <<"0", "1", "2", "3", "4", "5", "6", "7", "8", "9",
                       "A", "B", "C", "D", "E", "F">>
        Byte(b) == <<"%", HexDigits[(b \div 16) + 1], HexDigits[(b % 16) + 1]>>
        Cont(n) == Byte(128 + (n % 64))
        Utf8(n) ==
            IF n < 128 THEN Byte(n)
            ELSE IF n < 2048 THEN Byte(192 + (n \div 64)) \o Cont(n)
            ELSE IF n < 65536
            THEN Byte(224 + (n \div 4096)) \o Cont(n \div 64) \o Cont(n)
            ELSE Byte(240 + (n \div 262144)) \o Cont(n \div 4096) \o Cont(n \div 64)
                 \o Cont(n)
    IN  [c \in DOMAIN CodePoint |-> Utf8(CodePoint[c])]

(* urllib.parse.quote: letters, digits and "_.-~/" stay, every other       *)
(* character becomes %XX                                                   *)
QuoteChar(c) == IF c \in SafeChars THEN <<c>> ELSE PercentEncoded[c]

RECURSIVE quote(_)
quote(s) == IF s = <<>> THEN <<>> ELSE QuoteChar(Head(s)) \o quote(Tail(s))

FallbackSuffix ==
    <<",", " ", "h", "i", "g", "h", " ", "q", "u", "a", "l", "i", "t", "y",
      ",", " ", "d", "e", "t", "a", "i", "l", "e", "d", ",", " ", "p", "r",
      "o", "f", "e", "s", "s", "i", "o", "n", "a", "l", ",", " ", "4", "k">>

RawPrompts ==
    {<<>>, <<" ">>, <<"\r", " ">>, <<"c", "a", "t">>, <<"a", " ", "?">>, <<"a", "/", "b">>,
     <<"a", "&", "b">>, <<"c", "a", "f", "U+00E9">>}
OutputPaths == {"", "generated_images/image.png"}

(* what the structured LLM returns for an enhancement: an EnhancedPrompt   *)
(* or something without .content                                           *)
EnhanceValues ==
    {[kind |-> "none", content |-> <<>>]}
    \cup [kind : {"prompt"}, content : {<<"c", "a", "t", ",", " ", "4", "k">>, <<>>}]

(* Variant of enhance_prompt whose fallback is the prompt as it came. *)
EnhanceFallbackRaw(prompt, script, value) ==
    LET r == ClientRequest(1, script)
    IN  [call |-> LlmCall("enhance", r),
         result |-> IF r.raised \/ value.kind # "prompt" THEN prompt ELSE value.content,
         fallback |-> r.raised \/ value.kind # "prompt"]

(* lines 129-160: the enhanced prompt, or the prompt with the fixed suffix *)
(* when anything fails                                                     *)
enhance_prompt(prompt, script, value) ==
    LET r == ClientRequest(1, script)
    IN  [call |-> LlmCall("enhance", r),
         result |-> IF r.raised \/ value.kind # "prompt"
                    THEN prompt \o FallbackSuffix ELSE value.content,
         fallback |-> r.raised \/ value.kind # "prompt"]

FallbackScenario ==
    [narrative |-> "I'm imagining a beautiful scene...",
     image_prompt |-> "beautiful landscape with mountains and sunset, digital art, high quality, detailed"]

(* what the structured LLM returns for a scenario: a ScenarioPrompt or not *)
ScenarioValues ==
    {[kind |-> "none", narrative |-> "", image_prompt |-> ""]}
    \cup [kind : {"scenario"}, narrative : {"", "On a walk"}, image_prompt : {"a park"}]

ChatHistories == {NoneStr, "[]", "[human: hello]"}

(* Variant of create_scenario that lets the exception out. *)
ScenarioNoExcept(chat_history, script, value) ==
    LET r == ClientRequest(1, script)
    IN  IF chat_history = NoneStr
        THEN [call |-> NoLlmCall, raised |-> TRUE, result |-> FallbackScenario]
        ELSE IF r.raised \/ value.kind # "scenario"
        THEN [call |-> LlmCall("scenario", r), raised |-> TRUE, result |-> FallbackScenario]
        ELSE [call |-> LlmCall("scenario", r), raised |-> FALSE,
              result |-> [narrative |-> value.narrative, image_prompt |-> value.image_prompt]]

(* lines 92-127: chat_history[-5:] of None raises before the LLM is        *)
(* called; every exception gives the fixed scenario                        *)
create_scenario(chat_history, script, value) ==
    LET r == ClientRequest(1, script)
    IN  IF chat_history = NoneStr
        THEN [call |-> NoLlmCall, raised |-> FALSE, result |-> FallbackScenario]
        ELSE IF r.raised \/ value.kind # "scenario"
        THEN [call |-> LlmCall("scenario", r), raised |-> FALSE, result |-> FallbackScenario]
        ELSE [call |-> LlmCall("scenario", r), raised |-> FALSE,
              result |-> [narrative |-> value.narrative, image_prompt |-> value.image_prompt]]

api_url == "https://image.pollinations.ai/prompt"

(* Variant of RenderUrl built from the prompt the caller gave. *)
RenderUrlRaw(prompt, enhanced) ==
    [base |-> api_url, path |-> quote(prompt),
     query |-> "?width=1024&height=768&model=flux&nologo=true"]

(* lines 62-66 *)
RenderUrl(prompt, enhanced) ==
    [base |-> api_url, path |-> quote(enhanced),
     query |-> "?width=1024&height=768&model=flux&nologo=true"]

RenderOutcomes == {"ok", "HTTPError", "HTTPStatusError", "Exception"}

(* line 73: response.content of a render that succeeded, byte by byte *)
ImageData == <<"i", "m", "a", "g", "e", "_", "d", "a", "t", "a">>

ImgReturned(value) == [status |-> "returned", exc |-> "", value |-> value]
ImgRaised(exc, msg) == [status |-> "raised", exc |-> exc, value |-> msg]

ImgReady == ipc = "idle" /\ pc = "idle"


(* what every TextToImage call starts from *)
ImgFresh ==
    /\ requests' = <<>>
    /\ saved' = saved

(* lines 49-52: a prompt of whitespace only raises ValueError at once *)
generate_image(prompt, output_path) ==
    /\ ImgReady
    /\ ImgFresh
    /\ iop' = [name |-> "generate_image", prompt |-> prompt, output_path |-> output_path,
               chat_history |-> NoneStr]
    /\ llm' = NoLlmCall
    /\ enhanced_prompt' = <<>>
    /\ IF Blank(prompt)
       THEN ipc' = "done" /\ iret' = ImgRaised("ValueError", "Prompt cannot be empty")
       ELSE ipc' = "enhance" /\ iret' = NoImgRet
    /\ UNCHANGED notimg

(* line 58: enhanced_prompt = await self.enhance_prompt(prompt) *)
GenEnhance(script, value) ==
    /\ ipc = "enhance"
    /\ LET e == enhance_prompt(iop.prompt, script, value)
       IN  llm' = e.call /\ enhanced_prompt' = e.result
    /\ ipc' = "render"
    /\ UNCHANGED <<notimg, iop, requests, saved, iret>>

(* Variant of GenRender that maps no exception to TextToImageError. *)
GenRenderUnwrapped(outcome) ==
    /\ ipc = "render"
    /\ requests' = Append(requests, [url |-> RenderUrl(iop.prompt, enhanced_prompt),
                                     outcome |-> outcome])
    /\ IF outcome = "ok"
       THEN IF iop.output_path # ""
            THEN ipc' = "save" /\ iret' = iret
            ELSE ipc' = "done" /\ iret' = ImgReturned(ImageData)
       ELSE ipc' = "done" /\ iret' = ImgRaised(outcome, "")
    /\ UNCHANGED <<notimg, iop, llm, enhanced_prompt, saved>>

(* lines 62-74 and 85-90: one GET of the url; a transport error or an      *)
(* error status is an httpx.HTTPError, and every exception leaves as       *)
(* TextToImageError                                                        *)
GenRender(outcome) ==
    /\ ipc = "render"
    /\ requests' = Append(requests, [url |-> RenderUrl(iop.prompt, enhanced_prompt),
                                     outcome |-> outcome])
    /\ IF outcome = "ok"
       THEN IF iop.output_path # ""
            THEN ipc' = "save" /\ iret' = iret
            ELSE ipc' = "done" /\ iret' = ImgReturned(ImageData)
       ELSE IF outcome \in {"HTTPError", "HTTPStatusError"}
       THEN ipc' = "done"
            /\ iret' = ImgRaised("TextToImageError", "Failed to generate image: HTTP error")
       ELSE ipc' = "done"
            /\ iret' = ImgRaised("TextToImageError", "Failed to generate image")
    /\ UNCHANGED <<notimg, iop, llm, enhanced_prompt, saved>>

(* os.makedirs or open fails; open succeeds and f.write fails; both succeed *)
SaveOutcomes == {"open", "write", "ok"}

(* lines 76-83: open(output_path, "wb") creates the file or empties it,    *)
(* then the bytes are written and returned; a write that fails has left    *)
(* the first bytes, 'written' of them, in the file                         *)
GenSave(outcome, written) ==
    /\ ipc = "save"
    /\ written = IF outcome = "open" THEN 0
                 ELSE IF outcome = "ok" THEN Len(ImageData)
                 ELSE written
    /\ outcome = "write" => written < Len(ImageData)
    /\ ipc' = "done"
    /\ saved' = IF outcome = "open" THEN saved
                ELSE [f \in DOMAIN saved \cup {iop.output_path} |->
                        IF f # iop.output_path THEN saved[f]
                        ELSE SubSeq(ImageData, 1, written)]
    /\ iret' = IF outcome = "ok" THEN ImgReturned(ImageData)
               ELSE ImgRaised("TextToImageError", "Failed to generate image")
    /\ UNCHANGED <<notimg, iop, llm, enhanced_prompt, requests>>

(* enhance_prompt called on its own *)
EnhancePrompt(prompt, script, value) ==
    /\ ImgReady
    /\ ImgFresh
    /\ iop' = [name |-> "enhance_prompt", prompt |-> prompt, output_path |-> "",
               chat_history |-> NoneStr, value |-> value]
    /\ LET e == enhance_prompt(prompt, script, value)
       IN  /\ llm' = e.call
           /\ enhanced_prompt' = e.result
           /\ iret' = ImgReturned(IF e.fallback THEN "fallback" ELSE "enhanced")
    /\ ipc' = "done"
    /\ UNCHANGED notimg

(* create_scenario(chat_history) *)
CreateScenario(chat_history, script, value) ==
    /\ ImgReady
    /\ ImgFresh
    /\ iop' = [name |-> "create_scenario", prompt |-> <<>>, output_path |-> "",
               chat_history |-> chat_history, value |-> value]
    /\ LET c == create_scenario(chat_history, script, value)
       IN  /\ llm' = c.call
           /\ iret' = IF c.raised THEN ImgRaised("Exception", "")
                      ELSE ImgReturned(c.result)
    /\ enhanced_prompt' = <<>>
    /\ ipc' = "done"
    /\ UNCHANGED notimg

(* memory_manager.py lines 35-40 and 48-62: _analyze_memory through its    *)
(* ChatGroq client                                                         *)
AnalyzeInvoke(script, out) ==
    /\ ImgReady
    /\ ImgFresh
    /\ iop' = [name |-> "_analyze_memory", prompt |-> <<>>, output_path |-> "",
               chat_history |-> NoneStr]
    /\ LET r == ClientRequest(1, script)
       IN  /\ llm' = LlmCall("analysis", r)
           /\ iret' = ImgReturned(_analyze_memory(
                          IF r.raised
                          THEN [kind |-> "raise", is_important |-> FALSE,
                                formatted_memory |-> NoneStr]
                          ELSE out))
    /\ enhanced_prompt' = <<>>
    /\ ipc' = "done"
    /\ UNCHANGED notimg

(* the call has returned (or raised) to its caller *)
ImgReturn ==
    /\ ipc = "done"
    /\ ipc' = "idle"
    /\ iop' = NoImgOp
    /\ llm' = NoLlmCall
    /\ enhanced_prompt' = <<>>
    /\ requests' = <<>>
    /\ iret' = NoImgRet
    /\ UNCHANGED <<notimg, saved>>

NextTextToImage ==
    \/ \E prompt \in RawPrompts, output_path \in OutputPaths :
         generate_image(prompt, output_path)
    \/ \E script \in LlmScripts, value \in EnhanceValues : GenEnhance(script, value)
    \/ \E outcome \in RenderOutcomes : GenRender(outcome)
    \/ \E outcome \in SaveOutcomes, written \in 0..Len(ImageData) : GenSave(outcome, written)
    \/ \E prompt \in RawPrompts, script \in LlmScripts, value \in EnhanceValues :
         EnhancePrompt(prompt, script, value)
    \/ \E chat_history \in ChatHistories, script \in LlmScripts, value \in ScenarioValues :
         CreateScenario(chat_history, script, value)
    \/ \E script \in LlmScripts, out \in LlmOutcomes \ {o \in LlmOutcomes : o.kind = "raise"} :
         AnalyzeInvoke(script, out)
    \/ ImgReturn

(* ImageToText.analyze_image (modules/image/image_to_text.py).  image_data *)
(* is a path or bytes; a failure of the PIL conversion is logged and the   *)
(* original bytes are used.                                                *)
ImageInputs == {"missing file", "empty file", "file", "empty bytes", "bytes"}

(* the vision call raises, or answers without choices, with no content,    *)
(* with blank content, or with a description                               *)
VisionOutcomes == {"raise", "no choices", "none", "blank", "description"}

(* lines 52-153: the body of the try *)
AnalyzeBody(image_data, vision) ==
    IF image_data = "missing file"
    THEN ImgRaised("ValueError", "Image file not found")
    ELSE IF image_data \in {"empty file", "empty bytes"}
    THEN ImgRaised("ValueError", "Image data cannot be empty")
    ELSE IF vision = "raise"
    THEN ImgRaised("APIError", "vision call failed")
    ELSE IF vision = "no choices"
    THEN ImgRaised("ImageToTextError", "No response received from the vision model")
    ELSE IF vision \in {"none", "blank"}
    THEN ImgRaised("ImageToTextError", "Empty response from vision model")
    ELSE ImgReturned("description")

(* lines 51 and 155-157: whatever the body raises is raised again as       *)
(* ImageToTextError (value: the exception it was raised from)              *)
analyze_image(image_data, vision) ==
    LET r == AnalyzeBody(image_data, vision)
    IN  IF r.status = "raised" THEN ImgRaised("ImageToTextError", r.exc) ELSE r

AnalyzeImage(image_data, vision) ==
    /\ ImgReady
    /\ ImgFresh
    /\ iop' = [name |-> "analyze_image", prompt |-> <<>>, output_path |-> "",
               chat_history |-> NoneStr, image_data |-> image_data]
    /\ llm' = NoLlmCall
    /\ enhanced_prompt' = <<>>
    /\ iret' = analyze_image(image_data, vision)
    /\ ipc' = "done"
    /\ UNCHANGED notimg

(* TextToImage and the LLM clients next to an index that holds a memory *)
InitImage ==
    /\ collection = TRUE
    /\ points = [i \in {1} |-> [text |-> "f1", id |-> 1, timestamp |-> 1]]
    /\ pc = "idle"
    /\ op = NoOp
    /\ pre = NoPre
    /\ llmOut = NoLlm
    /\ analysis = NoAnalysis
    /\ metadata = NoMetadata
    /\ similar = NoMemory
    /\ similar_memory = NoMemory
    /\ env = NoEnv
    /\ probe = NoProbe
    /\ response = <<>>
    /\ calls = NoCalls
    /\ ret = NoRet
    /\ ImgInit
    /\ WaInit
    /\ AppInit

NextImage ==
    \/ NextTextToImage
    \/ \E image_data \in ImageInputs, vision \in VisionOutcomes : AnalyzeImage(image_data, vision)
    \/ \E context \in Texts, k \in 1..MaxTopK : get_relevant_memories(context, k)
    \/ \E script \in ProbeScripts, encOk, searchOk \in BOOLEAN, tie \in Ties :
         GetSearch(script, encOk, searchOk, tie)
    \/ Return

SpecImage == InitImage /\ [][NextImage]_vars

-----------------------------------------------------------------------------
(* WhatsApp webhook (interfaces/whatsapp/whatsapp_response.py).  Message   *)
(* contents are sequences of text pieces.  The Graph API, the media        *)
(* capabilities and the graph are awaited calls whose outcome the          *)
(* environment chooses.                                                    *)

MsgIds == {"m1", "m2"}

(* captions are sequences of characters and words *)
Captions == {<<>>, <<" ", "\n">>, <<"cap">>}

(* what request.json() gives: not JSON at all, no entry/changes, a change   *)
(* without 'value', a status update, a value without 'messages', a value   *)
(* whose 'messages' is the empty list, or one message of some type         *)
Payloads ==
    {[kind |-> k, id |-> "", caption |-> <<>>] :
        k \in {"badjson", "empty", "novalue", "statuses", "nomessages", "emptymessages"}}
    \cup [kind : {"text", "audio", "sticker"}, id : MsgIds, caption : {<<>>}]
    \cup [kind : {"image"}, id : MsgIds, caption : Captions]

IsMessage(payload) == payload.kind \in {"text", "audio", "image", "sticker"}

(* httpx: the request is answered 200/201, answered with another status,   *)
(* or raises                                                               *)
NetOutcomes == {"ok", "rejected", "raise"}

(* lines 116-121: a status other than 200/201 is logged, nothing is raised *)
_post(posts, kind, body, net) ==
    IF net = "raise"
    THEN [posts |-> posts, raised |-> TRUE]
    ELSE [posts |-> Append(posts, [kind |-> kind, body |-> body, accepted |-> net = "ok"]),
          raised |-> FALSE]

(* lines 100-114: res.raise_for_status() raises for every status that is   *)
(* not a success                                                           *)
_upload_media(upload) == [raised |-> upload # "ok"]

(* lines 178-181 *)
StartReaction(kind) ==
    IF kind = "image" THEN "eyes" ELSE IF kind = "audio" THEN "ear" ELSE "thinking"

USER_SENT_IMAGE == "[USER_SENT_IMAGE] "
IMAGE_ANALYSIS == "\n\n[Image Analysis: "
ANALYSIS_FAILED == "\n\n[Image Analysis: Failed to analyze]"
SORRY == <<"Sorry, I can't handle this message type yet.">>

(* lines 194-195: the caption, or the default when caption.strip() is empty *)
UserQuestion(caption) == IF Blank(caption) THEN <<"What is this?">> ELSE caption

(* line 198 *)
ImageQuestion(caption) == <<USER_SENT_IMAGE>> \o UserQuestion(caption)

(* Variant of ImageContent that does not tag the message. *)
ImageContentUntagged(caption, vision) ==
    UserQuestion(caption)

(* lines 198-209: the tag, the question and the analysis (or its failure) *)
ImageContent(caption, vision) ==
    ImageQuestion(caption)
    \o (IF vision = "ok" THEN <<IMAGE_ANALYSIS, "a laptop", "]">> ELSE <<ANALYSIS_FAILED>>)

(* the handler has ended: its locals are gone, what it posted stays posted *)
Ended(r, status, body) ==
    [pc |-> "done", payload |-> r.payload, content |-> <<>>, local |-> NoState,
     output_state |-> NoState, posts |-> r.posts, status |-> status, body |-> body]

(* lines 258-260 *)
InternalError(r) == Ended(r, 500, "Internal Error")

Ok200(r, body) == Ended(r, 200, body)

At(h, where) == hnd[h].pc = where

(* lines 151-172: the payload is parsed and validated; a change without    *)
(* 'value' is a KeyError at line 159 and an empty 'messages' list an       *)
(* IndexError at line 167, both answered by the except clause.  The first  *)
(* delivery the model follows is the one of message "m1".                  *)
whatsapp_message_handler(h, payload) ==
    /\ At(h, "idle")
    /\ h = 1 => payload.id \in {"", "m1"}
    /\ hnd' = [hnd EXCEPT ![h] =
          LET r == [hnd[h] EXCEPT !.payload = payload]
          IN  IF payload.kind = "badjson" THEN InternalError(r)
              ELSE IF payload.kind = "empty" THEN Ok200(r, "No changes")
              ELSE IF payload.kind = "novalue" THEN InternalError(r)
              ELSE IF payload.kind = "statuses" THEN Ok200(r, "Status received")
              ELSE IF payload.kind = "nomessages" THEN Ok200(r, "No messages found")
              ELSE IF payload.kind = "emptymessages" THEN InternalError(r)
              ELSE [r EXCEPT !.pc = "feedback"]]
    /\ UNCHANGED <<notwa, thread, files>>

(* Variant of MarkAsRead that goes on without the read receipt. *)
MarkAsReadSkipped(h, net) ==
    /\ At(h, "feedback")
    /\ hnd' = [hnd EXCEPT ![h] = [hnd[h] EXCEPT !.pc = "react"]]
    /\ UNCHANGED <<notwa, thread, files>>

(* lines 174-176: blue ticks *)
MarkAsRead(h, net) ==
    /\ At(h, "feedback")
    /\ hnd' = [hnd EXCEPT ![h] =
          LET p == _post(hnd[h].posts, "read", hnd[h].payload.id, net)
          IN  IF p.raised THEN InternalError(hnd[h])
              ELSE [hnd[h] EXCEPT !.posts = p.posts, !.pc = "react"]]
    /\ UNCHANGED <<notwa, thread, files>>

(* lines 178-183: the reaction for the input type *)
Feedback(h, net) ==
    /\ At(h, "react")
    /\ hnd' = [hnd EXCEPT ![h] =
          LET p == _post(hnd[h].posts, "reaction", StartReaction(hnd[h].payload.kind), net)
          IN  IF p.raised THEN InternalError(hnd[h])
              ELSE [hnd[h] EXCEPT !.posts = p.posts, !.pc = "extract"]]
    /\ UNCHANGED <<notwa, thread, files>>

(* lines 186-216 up to the first await: audio and image go on to           *)
(* download_media (an image's content is tagged before), a text is its     *)
(* body, another type is answered with the apology for the type            *)
ExtractContent(h, net) ==
    /\ At(h, "extract")
    /\ hnd' = [hnd EXCEPT ![h] =
          LET kind == hnd[h].payload.kind
              sorry == _post(hnd[h].posts, "text", SORRY, net)
          IN  IF kind = "audio"
              THEN [hnd[h] EXCEPT !.pc = "download_url"]
              ELSE IF kind = "image"
              THEN [hnd[h] EXCEPT !.content = ImageQuestion(hnd[h].payload.caption),
                                  !.pc = "download_url"]
              ELSE IF kind = "text"
              THEN [hnd[h] EXCEPT !.content = <<"hello">>, !.pc = "invoke"]
              ELSE IF sorry.raised
              THEN InternalError(hnd[h])
              ELSE Ok200([hnd[h] EXCEPT !.posts = sorry.posts], "Unsupported type")]
    /\ UNCHANGED <<notwa, thread, files>>

(* lines 89-93: download_media asks for the url of the media *)
DownloadUrl(h, ok) ==
    /\ At(h, "download_url")
    /\ hnd' = [hnd EXCEPT ![h] =
          IF ok THEN [hnd[h] EXCEPT !.pc = "download_bytes"] ELSE InternalError(hnd[h])]
    /\ UNCHANGED <<notwa, thread, files>>

(* lines 95-98: download_media gets the bytes *)
DownloadBytes(h, ok) ==
    /\ At(h, "download_bytes")
    /\ hnd' = [hnd EXCEPT ![h] =
          IF ok THEN [hnd[h] EXCEPT !.pc = "capability"] ELSE InternalError(hnd[h])]
    /\ UNCHANGED <<notwa, thread, files>>

(* line 190: transcribe; lines 202-209: analyze_image, whose failure alone *)
(* is caught                                                               *)
Capability(h, capability) ==
    /\ At(h, "capability")
    /\ hnd' = [hnd EXCEPT ![h] =
          IF hnd[h].payload.kind = "audio"
          THEN IF capability # "ok"
               THEN InternalError(hnd[h])
               ELSE [hnd[h] EXCEPT !.content = <<"transcript">>, !.pc = "invoke"]
          ELSE [hnd[h] EXCEPT !.content = ImageContent(hnd[h].payload.caption, capability),
                              !.pc = "invoke"]]
    /\ UNCHANGED <<notwa, thread, files>>

(* The graph (ai_companion.graph, compiled over the AsyncSqliteSaver).     *)
(* graph.ainvoke loads the latest checkpoint of the thread, appends the    *)
(* human message, runs the router and one generator, and saves the state   *)
(* it holds as the thread's latest checkpoint after each step.             *)

Labels == {"conversation", "image", "audio", ""}
ReplyTexts == {<<>>, <<"reply">>}

Human(content, h, id) == [role |-> "human", content |-> content, turn |-> h, id |-> id]
Assistant(content, h, id) == [role |-> "ai", content |-> content, turn |-> h, id |-> id]

Pieces(content) == {content[i] : i \in 1..Len(content)}

HasImageMarker(content) ==
    Pieces(content) \cap {USER_SENT_IMAGE, IMAGE_ANALYSIS, ANALYSIS_FAILED} # {}

Last(seq) == seq[Len(seq)]

(* Modality Router: the marker of a user image forces 'conversation';      *)
(* otherwise the classifier's label, and 'conversation' for any label      *)
(* other than 'image' and 'audio'                                          *)
classify(messages, label) ==
    IF HasImageMarker(Last(messages).content) THEN "conversation"
    ELSE IF label \in {"image", "audio"} THEN label
    ELSE "conversation"

(* the generator of the selected modality: the reply, and for 'image' a    *)
(* file under a fresh path, for 'audio' the synthesized bytes              *)
Generate(state, h, id, text) ==
    LET st == [state EXCEPT !.messages = Append(@, Assistant(text, h, id))]
    IN  IF state.workflow = "image" THEN [st EXCEPT !.image_path = h]
        ELSE IF state.workflow = "audio" THEN [st EXCEPT !.audio_buffer = h]
        ELSE st

(* lines 218-226: graph.ainvoke begins; opening the saver or the call can raise *)
InvokeBegin(h, ok) ==
    /\ At(h, "invoke")
    /\ IF ok
       THEN LET st == [thread EXCEPT
                          !.messages = Append(@, Human(hnd[h].content, h, hnd[h].payload.id))]
            IN  /\ thread' = st
                /\ hnd' = [hnd EXCEPT ![h] = [hnd[h] EXCEPT !.local = st, !.pc = "route"]]
       ELSE /\ thread' = thread
            /\ hnd' = [hnd EXCEPT ![h] = InternalError(hnd[h])]
    /\ UNCHANGED <<notwa, files>>

(* the router node *)
GraphRoute(h, label) ==
    /\ At(h, "route")
    /\ LET st == [hnd[h].local EXCEPT !.workflow = classify(hnd[h].local.messages, label)]
       IN  /\ thread' = st
           /\ hnd' = [hnd EXCEPT ![h] = [hnd[h] EXCEPT !.local = st, !.pc = "generate"]]
    /\ UNCHANGED <<notwa, files>>

(* the generator node; its failure leaves ainvoke as an exception *)
GraphGenerate(h, ok, text) ==
    /\ At(h, "generate")
    /\ IF ok
       THEN LET st == Generate(hnd[h].local, h, hnd[h].payload.id, text)
            IN  /\ thread' = st
                /\ files' = IF st.workflow = "image" THEN files \cup {h} ELSE files
                /\ hnd' = [hnd EXCEPT ![h] = [hnd[h] EXCEPT !.local = st, !.pc = "get_state"]]
       ELSE /\ thread' = thread
            /\ files' = files
            /\ hnd' = [hnd EXCEPT ![h] = InternalError(hnd[h])]
    /\ UNCHANGED notwa

(* Variant of aget_state that gives the state as it was before the turn. *)
StateBeforeTurn(h) ==
    [thread EXCEPT !.messages = SubSeq(@, 1, Len(@) - 1)]

(* line 228: output_state = await graph.aget_state(config): the latest     *)
(* checkpoint of the thread                                                *)
aget_state(h) == thread

GetState(h, ok) ==
    /\ At(h, "get_state")
    /\ hnd' = [hnd EXCEPT ![h] =
          IF ok THEN [hnd[h] EXCEPT !.output_state = aget_state(h), !.pc = "respond"]
          ELSE InternalError(hnd[h])]
    /\ UNCHANGED <<notwa, thread, files>>

(* Variant of Workflow that takes 'image' for a value it does not know. *)
WorkflowImageDefault(values) ==
    IF values.workflow \in {"audio", "conversation"} THEN values.workflow ELSE "image"

(* lines 231 and 234-249: 'audio' and 'image' are the two values with a    *)
(* branch of their own; an absent workflow reads as 'conversation' and     *)
(* every other value takes the else branch                                 *)
Workflow(values) ==
    IF values.workflow = NoneStr THEN "conversation"
    ELSE IF values.workflow \in {"audio", "image"} THEN values.workflow
    ELSE "conversation"

(* lines 239-241: the media of the reply, the bytes of the image file.     *)
(* No audio gets as far as a request (line 236).                           *)
Media(values) == <<"image", values.image_path>>

(* lines 230-249 up to the first request.  The audio of the reply is the   *)
(* synthesized bytes: line 236 asks them for getvalue(), which bytes do    *)
(* not have (as None does not), and the handler leaves through 258-260     *)
(* before any request.  A missing image_path, or a file that is not        *)
(* there, raises.  An image is uploaded first; a text is posted.           *)
Respond(h, net) ==
    /\ At(h, "respond")
    /\ hnd' = [hnd EXCEPT ![h] =
          LET values == hnd[h].output_state
              response_text == Last(values.messages).content
              workflow == Workflow(values)
              text == _post(hnd[h].posts, "text", response_text, net)
          IN  IF workflow = "audio"
              THEN InternalError(hnd[h])
              ELSE IF workflow = "image"
              THEN IF values.image_path = 0 \/ values.image_path \notin files
                      \/ _upload_media(net).raised
                   THEN InternalError(hnd[h])
                   ELSE [hnd[h] EXCEPT !.pc = "post_media"]
              ELSE IF text.raised
              THEN InternalError(hnd[h])
              ELSE [hnd[h] EXCEPT !.posts = text.posts, !.pc = "final"]]
    /\ UNCHANGED <<notwa, thread, files>>

(* lines 84-85 of send_message: the uploaded media is posted; the image's  *)
(* caption goes out after it as a text message of its own (244-245)        *)
PostMedia(h, net) ==
    /\ At(h, "post_media")
    /\ hnd' = [hnd EXCEPT ![h] =
          LET values == hnd[h].output_state
              p == _post(hnd[h].posts, Workflow(values), Media(values), net)
          IN  IF p.raised
              THEN InternalError(hnd[h])
              ELSE [hnd[h] EXCEPT !.posts = p.posts,
                                  !.pc = IF Workflow(values) = "image"
                                            /\ Last(values.messages).content # <<>>
                                         THEN "caption" ELSE "final"]]
    /\ UNCHANGED <<notwa, thread, files>>

(* lines 244-245 *)
PostCaption(h, net) ==
    /\ At(h, "caption")
    /\ hnd' = [hnd EXCEPT ![h] =
          LET p == _post(hnd[h].posts, "text", Last(hnd[h].output_state.messages).content, net)
          IN  IF p.raised
              THEN InternalError(hnd[h])
              ELSE [hnd[h] EXCEPT !.posts = p.posts, !.pc = "final"]]
    /\ UNCHANGED <<notwa, thread, files>>

(* lines 251-254 *)
FinalReaction(h, net) ==
    /\ At(h, "final")
    /\ hnd' = [hnd EXCEPT ![h] =
          LET p == _post(hnd[h].posts, "reaction", "check", net)
          IN  IF p.raised
              THEN InternalError(hnd[h])
              ELSE Ok200([hnd[h] EXCEPT !.posts = p.posts], "Processed")]
    /\ UNCHANGED <<notwa, thread, files>>

(* one delivery at a time: the webhook delivers (or redelivers) once the   *)
(* handler has answered the delivery before                                *)
Webhook(h, payload) ==
    /\ h > 1 => At(h - 1, "done")
    /\ whatsapp_message_handler(h, payload)

(* one delivery, handled to its end, with every outcome of every call *)
NextWhatsApp ==
    \/ \E payload \in Payloads : Webhook(1, payload)
    \/ \E net \in NetOutcomes : MarkAsRead(1, net)
    \/ \E net \in NetOutcomes : Feedback(1, net)
    \/ \E net \in NetOutcomes : ExtractContent(1, net)
    \/ \E ok \in BOOLEAN : DownloadUrl(1, ok)
    \/ \E ok \in BOOLEAN : DownloadBytes(1, ok)
    \/ \E capability \in {"ok", "raise"} : Capability(1, capability)
    \/ \E ok \in BOOLEAN : InvokeBegin(1, ok)
    \/ \E label \in Labels : GraphRoute(1, label)
    \/ \E ok \in BOOLEAN, text \in ReplyTexts : GraphGenerate(1, ok, text)
    \/ \E ok \in BOOLEAN : GetState(1, ok)
    \/ \E net \in NetOutcomes : Respond(1, net)
    \/ \E net \in NetOutcomes : PostMedia(1, net)
    \/ \E net \in NetOutcomes : PostCaption(1, net)
    \/ \E net \in NetOutcomes : FinalReaction(1, net)

SpecWhatsApp == Init /\ [][NextWhatsApp]_vars

(* a delivery and, once it is answered, a second one: the same message     *)
(* again or another one.  The requests go through, but the success         *)
(* reaction, which may be refused or raise after the reply was sent.       *)
NextRedelivery ==
    \/ \E h \in Handlers, payload \in Payloads : Webhook(h, payload)
    \/ \E h \in Handlers : MarkAsRead(h, "ok")
    \/ \E h \in Handlers : Feedback(h, "ok")
    \/ \E h \in Handlers : ExtractContent(h, "ok")
    \/ \E h \in Handlers : DownloadUrl(h, TRUE)
    \/ \E h \in Handlers : DownloadBytes(h, TRUE)
    \/ \E h \in Handlers, capability \in {"ok", "raise"} : Capability(h, capability)
    \/ \E h \in Handlers : InvokeBegin(h, TRUE)
    \/ \E h \in Handlers, label \in Labels : GraphRoute(h, label)
    \/ \E h \in Handlers, ok \in BOOLEAN, text \in ReplyTexts : GraphGenerate(h, ok, text)
    \/ \E h \in Handlers : GetState(h, TRUE)
    \/ \E h \in Handlers : Respond(h, "ok")
    \/ \E h \in Handlers : PostMedia(h, "ok")
    \/ \E h \in Handlers : PostCaption(h, "ok")
    \/ \E h \in Handlers, net \in NetOutcomes : FinalReaction(h, net)

SpecRedelivery == Init /\ [][NextRedelivery]_vars

(* two deliveries for the same sender handled at the same time, every      *)
(* request to the Graph API and to the media capabilities going through    *)
ChatPayloads == {p \in Payloads : p.kind \in {"text", "image"}}

WebhookOverlapping(h, payload) ==
    /\ h > 1 => ~At(h - 1, "idle")
    /\ whatsapp_message_handler(h, payload)

NextConcurrent ==
    \/ \E h \in Handlers, payload \in ChatPayloads : WebhookOverlapping(h, payload)
    \/ \E h \in Handlers : MarkAsRead(h, "ok")
    \/ \E h \in Handlers : Feedback(h, "ok")
    \/ \E h \in Handlers : ExtractContent(h, "ok")
    \/ \E h \in Handlers : DownloadUrl(h, TRUE)
    \/ \E h \in Handlers : DownloadBytes(h, TRUE)
    \/ \E h \in Handlers, capability \in {"ok", "raise"} : Capability(h, capability)
    \/ \E h \in Handlers : InvokeBegin(h, TRUE)
    \/ \E h \in Handlers, label \in Labels : GraphRoute(h, label)
    \/ \E h \in Handlers, ok \in BOOLEAN : GraphGenerate(h, ok, <<"reply">>)
    \/ \E h \in Handlers : GetState(h, TRUE)
    \/ \E h \in Handlers : Respond(h, "ok")
    \/ \E h \in Handlers : PostMedia(h, "ok")
    \/ \E h \in Handlers : PostCaption(h, "ok")
    \/ \E h \in Handlers : FinalReaction(h, "ok")

SpecConcurrent == Init /\ [][NextConcurrent]_vars

(* The response step on its own, for any state the handler may read: any   *)
(* recorded workflow value, with and without the outputs.  The handler of  *)
(* the text message m1 stands at line 230: the read receipt and the start  *)
(* reaction are posted, each answered 200 or with another status.         *)
WorkflowValues == {NoneStr, "", "conversation", "image", "audio", "video"}

OutputStates ==
    {[messages |-> <<Human(<<"hello">>, 1, "m1"), Assistant(text, 1, "m1")>>,
      workflow |-> w, audio_buffer |-> a, image_path |-> i] :
        text \in ReplyTexts, w \in WorkflowValues, a \in {0, 1}, i \in {0, 1}}

InitResponse ==
    /\ collection = FALSE
    /\ points = EmptyPoints
    /\ pc = "idle"
    /\ op = NoOp
    /\ pre = NoPre
    /\ llmOut = NoLlm
    /\ analysis = NoAnalysis
    /\ metadata = NoMetadata
    /\ similar = NoMemory
    /\ similar_memory = NoMemory
    /\ env = NoEnv
    /\ probe = NoProbe
    /\ response = <<>>
    /\ calls = NoCalls
    /\ ret = NoRet
    /\ ImgInit
    /\ AppInit
    /\ files \in {{}, {1}}
    /\ \E values \in OutputStates, read, reaction \in {"ok", "rejected"} :
          /\ thread = values
          /\ hnd = [h \in Handlers |->
                      IF h = 1
                      THEN [NoHandler EXCEPT
                              !.pc = "respond",
                              !.payload = [kind |-> "text", id |-> "m1", caption |-> <<>>],
                              !.content = <<"hello">>,
                              !.local = values,
                              !.posts = _post(_post(<<>>, "read", "m1", read).posts,
                                              "reaction", StartReaction("text"),
                                              reaction).posts,
                              !.output_state = values]
                      ELSE NoHandler]

NextResponse ==
    \/ \E net \in NetOutcomes : Respond(1, net)
    \/ \E net \in NetOutcomes : PostMedia(1, net)
    \/ \E net \in NetOutcomes : PostCaption(1, net)
    \/ \E net \in NetOutcomes : FinalReaction(1, net)

SpecResponse == InitResponse /\ [][NextResponse]_vars

-----------------------------------------------------------------------------
(* Chainlit session (interfaces/chainlit/app.py, on_message).  The session *)
(* is a process of its own with a thread of its own (thread_id = session   *)
(* id); its messages are handled one after the other.                      *)

MaxTurns == 1    \* messages the session sends

notcl == <<memvars, imgvars, hnd, vs, fmt, vf, au, dim>>

ClTexts == {<<>>, <<" ">>, <<"hi">>}
MaxElements == 2
(* line 37, in pieces: the waving hand (U+1F44B), the text, the first 8    *)
(* characters of the session's thread_id, the end                         *)
GREETING ==
    <<"U+1F44B", " Hey! I'm Muzzamil. Ready to chat!\n\n*Session: ", "thread_id[:8]", "...*">>
DESCRIBE == "Please describe what you see in this image."
CL_ANALYSIS_FAILED == "\n\n[Image Analysis: Failed to analyze the image]"

ClAt(where) == cl.pc = where

(* lines 26-38: the session gets its thread_id and is greeted *)
on_chat_start ==
    /\ ClAt("new")
    /\ cl' = [cl EXCEPT !.pc = "idle",
                        !.sent = Append(cl.sent, [kind |-> "text", content |-> GREETING,
                                                  element |-> 0, turn |-> 0])]
    /\ UNCHANGED <<notcl, thread, files>>

(* on_message has ended, by return or by an exception *)
ClEnded(r, raised) ==
    [NoCl EXCEPT !.sent = r.sent, !.turn = r.turn, !.images = r.images,
                 !.pc = IF raised THEN "raised" ELSE "returned"]

(* lines 42-51: content = message.content; the elements, if any, come first *)
on_message(text, elements) ==
    /\ cl.pc \in {"idle", "returned", "raised"}
    /\ cl.turn < MaxTurns
    /\ cl' = [NoCl EXCEPT !.sent = cl.sent, !.turn = cl.turn + 1, !.text = text,
                          !.content = text, !.images = elements, !.elements = elements,
                          !.pc = IF elements > 0 THEN "element" ELSE "stream"]
    /\ UNCHANGED <<notcl, thread, files>>

(* lines 55-75, for one cl.Image element: the tag, the question (the       *)
(* content so far, or the default when content.strip() is empty), the      *)
(* analysis or its failure                                                 *)
ClImageContent(content, vision) ==
    <<USER_SENT_IMAGE>> \o (IF Blank(content) THEN <<DESCRIBE>> ELSE content)
    \o (IF vision = "ok" THEN <<IMAGE_ANALYSIS, "a laptop", "]">> ELSE <<CL_ANALYSIS_FAILED>>)

(* lines 52-75: one round of the loop over the elements; open(elem.path)   *)
(* is outside the try                                                      *)
ClElement(open, vision) ==
    /\ ClAt("element")
    /\ cl' = IF open # "ok"
             THEN ClEnded(cl, TRUE)
             ELSE [cl EXCEPT !.content = ClImageContent(cl.content, vision),
                             !.elements = cl.elements - 1,
                             !.pc = IF cl.elements = 1 THEN "stream" ELSE "element"]
    /\ UNCHANGED <<notcl, thread, files>>

(* lines 78-83: the step and the saver are opened *)
ClStream(ok) ==
    /\ ClAt("stream")
    /\ cl' = IF ok THEN [cl EXCEPT !.pc = "input"] ELSE ClEnded(cl, TRUE)
    /\ UNCHANGED <<notcl, thread, files>>

(* lines 85-88: graph.astream loads the thread's checkpoint and saves the  *)
(* human message                                                           *)
ClInput(ok) ==
    /\ ClAt("input")
    /\ IF ok
       THEN LET st == [thread EXCEPT
                          !.messages = Append(@, Human(cl.content, cl.turn, ""))]
            IN  /\ thread' = st
                /\ cl' = [cl EXCEPT !.local = st, !.pc = "route"]
       ELSE /\ thread' = thread
            /\ cl' = ClEnded(cl, TRUE)
    /\ UNCHANGED <<notcl, files>>

(* the router node *)
ClRoute(ok, label) ==
    /\ ClAt("route")
    /\ IF ok
       THEN LET st == [cl.local EXCEPT !.workflow = classify(cl.local.messages, label)]
            IN  /\ thread' = st
                /\ cl' = [cl EXCEPT !.local = st, !.pc = "generate"]
       ELSE /\ thread' = thread
            /\ cl' = ClEnded(cl, TRUE)
    /\ UNCHANGED <<notcl, files>>

(* the generator node begins to produce its reply *)
ClGenerate(text) ==
    /\ ClAt("generate")
    /\ cl' = [cl EXCEPT !.reply = text, !.pc = "tokens"]
    /\ UNCHANGED <<notcl, thread, files>>

(* lines 90-91: a chunk of conversation_node is streamed into msg *)
ClToken ==
    /\ ClAt("tokens")
    /\ cl.local.workflow = "conversation"
    /\ Len(cl.msg) < Len(cl.reply)
    /\ cl' = [cl EXCEPT !.msg = Append(cl.msg, cl.reply[Len(cl.msg) + 1])]
    /\ UNCHANGED <<notcl, thread, files>>

(* the generator node ends and its state is saved, or it raises *)
ClGenerated(ok) ==
    /\ ClAt("tokens")
    /\ ok => (cl.local.workflow # "conversation" \/ Len(cl.msg) = Len(cl.reply))
    /\ IF ok
       THEN LET st == Generate(cl.local, cl.turn, "", cl.reply)
            IN  /\ thread' = st
                /\ files' = IF st.workflow = "image" THEN files \cup {cl.turn} ELSE files
                /\ cl' = [cl EXCEPT !.local = st, !.pc = "get_state"]
       ELSE /\ thread' = thread
            /\ files' = files
            /\ cl' = ClEnded(cl, TRUE)
    /\ UNCHANGED notcl

(* line 93 *)
ClGetState(ok) ==
    /\ ClAt("get_state")
    /\ cl' = IF ok THEN [cl EXCEPT !.output_state = thread, !.pc = "respond"]
             ELSE ClEnded(cl, TRUE)
    /\ UNCHANGED <<notcl, thread, files>>

(* lines 96-117: what is shown for the state read; msg holds the streamed  *)
(* tokens of conversation_node.  The image is handed over by its path.     *)
ClProcessResponse(values, msg) ==
    LET reply == Last(values.messages).content
    IN  IF values.workflow = "audio"
        THEN IF values.audio_buffer = 0 THEN [raised |-> TRUE]
             ELSE [raised |-> FALSE, kind |-> "audio", content |-> reply,
                   element |-> values.audio_buffer]
        ELSE IF values.workflow = "image"
        THEN IF values.image_path = 0 THEN [raised |-> TRUE]
             ELSE [raised |-> FALSE, kind |-> "image", content |-> reply,
                   element |-> values.image_path]
        ELSE [raised |-> FALSE, kind |-> "text", content |-> msg, element |-> 0]

ClRespond ==
    /\ ClAt("respond")
    /\ LET r == ClProcessResponse(cl.output_state, cl.msg)
       IN  cl' = IF r.raised THEN ClEnded(cl, TRUE)
                 ELSE ClEnded([cl EXCEPT !.sent = Append(@, [kind |-> r.kind,
                                                             content |-> r.content,
                                                             element |-> r.element,
                                                             turn |-> cl.turn])], FALSE)
    /\ UNCHANGED <<notcl, thread, files>>

NextChainlit ==
    \/ on_chat_start
    \/ \E text \in ClTexts, elements \in 0..MaxElements : on_message(text, elements)
    \/ \E open, vision \in {"ok", "raise"} : ClElement(open, vision)
    \/ \E ok \in BOOLEAN : ClStream(ok)
    \/ \E ok \in BOOLEAN : ClInput(ok)
    \/ \E ok \in BOOLEAN, label \in Labels : ClRoute(ok, label)
    \/ \E text \in ReplyTexts : ClGenerate(text)
    \/ ClToken
    \/ \E ok \in BOOLEAN : ClGenerated(ok)
    \/ \E ok \in BOOLEAN : ClGetState(ok)
    \/ ClRespond

SpecChainlit == Init /\ [][NextChainlit]_vars

(* Voice input of the Chainlit session (app.py 120-167).  Audio data is a  *)
(* sequence of bytes.  Chunks arrive while on_audio_end is at work; one    *)
(* recording is ended at a time.                                           *)

MaxChunks == 2    \* audio chunks the session sends
MaxEnds == 2      \* recordings the session ends

ChunkData == {<<"a">>, <<"b", "c">>}

notau == <<memvars, imgvars, hnd, vs, fmt, vf, dim>>

(* BytesIO.write at the stream position *)
BytesWrite(buffer, position, data) ==
    SubSeq(buffer, 1, position) \o data
    \o SubSeq(buffer, position + Len(data) + 1, Len(buffer))

(* on_audio_end returned, or left by the exception named *)
AuEnded(r, exc) == [r EXCEPT !.pc = "idle", !.raised = exc, !.local = NoState]

(* lines 120-129: a start chunk puts a new BytesIO into the session; the   *)
(* data is written to whatever user_session.get("audio_buffer") gives,     *)
(* None when the session has none                                          *)
on_audio_chunk(isStart, data) ==
    /\ ~ClAt("new")
    /\ au.chunks < MaxChunks
    /\ LET r == [au EXCEPT !.chunks = au.chunks + 1,
                           !.started = au.started \/ isStart,
                           !.since = IF isStart THEN data
                                     ELSE IF au.started THEN au.since \o data
                                     ELSE au.since]
           b == IF isStart
                THEN [r EXCEPT !.has_buffer = TRUE, !.audio_buffer = <<>>, !.position = 0]
                ELSE r
       IN  au' = IF ~b.has_buffer
                 THEN [b EXCEPT !.chunk = "AttributeError"]
                 ELSE [b EXCEPT !.audio_buffer = BytesWrite(b.audio_buffer, b.position, data),
                                !.position = b.position + Len(data),
                                !.chunk = "returned"]
    /\ UNCHANGED <<notau, cl, thread, files>>

(* lines 132-143: seek(0) and read() of the session's buffer, then the     *)
(* recording is shown as the user's message                                *)
on_audio_end ==
    /\ ~ClAt("new")
    /\ au.pc = "idle"
    /\ au.ends < MaxEnds
    /\ LET r == [au EXCEPT !.ends = au.ends + 1, !.read = <<>>,
                           !.audio_data = <<>>, !.transcribed = <<>>,
                           !.transcription = <<>>, !.output_state = NoState,
                           !.speech = <<>>]
       IN  au' = IF ~au.has_buffer
                 THEN AuEnded(r, "AttributeError")
                 ELSE [r EXCEPT !.audio_data = au.audio_buffer,
                                !.read = au.since,
                                !.position = Len(au.audio_buffer),
                                !.sent = Append(au.sent, [kind |-> "input", content |-> <<>>,
                                                          audio |-> au.audio_buffer]),
                                !.raised = "",
                                !.pc = "transcribe"]
    /\ UNCHANGED <<notau, cl, thread, files>>

(* lines 145-147: speech_to_text.transcribe(audio_data) *)
AudioTranscribe(ok) ==
    /\ au.pc = "transcribe"
    /\ au' = IF ok
             THEN [au EXCEPT !.transcribed = au.audio_data,
                             !.transcription = <<"transcript">>, !.pc = "saver"]
             ELSE AuEnded([au EXCEPT !.transcribed = au.audio_data], "SpeechToTextError")
    /\ UNCHANGED <<notau, cl, thread, files>>

(* lines 150-151: the saver is opened *)
AudioSaver(ok) ==
    /\ au.pc = "saver"
    /\ au' = IF ok THEN [au EXCEPT !.pc = "invoke"] ELSE AuEnded(au, "Exception")
    /\ UNCHANGED <<notau, cl, thread, files>>

(* lines 152-155: graph.ainvoke loads the thread's checkpoint and saves    *)
(* the transcription as the human message                                  *)
AudioInvoke(ok) ==
    /\ au.pc = "invoke"
    /\ IF ok
       THEN LET st == [thread EXCEPT
                          !.messages = Append(@, Human(au.transcription, au.ends, ""))]
            IN  /\ thread' = st
                /\ au' = [au EXCEPT !.local = st, !.pc = "route"]
       ELSE /\ thread' = thread
            /\ au' = AuEnded(au, "Exception")
    /\ UNCHANGED <<notau, cl, files>>

(* the router node *)
AudioRoute(ok, label) ==
    /\ au.pc = "route"
    /\ IF ok
       THEN LET st == [au.local EXCEPT !.workflow = classify(au.local.messages, label)]
            IN  /\ thread' = st
                /\ au' = [au EXCEPT !.local = st, !.pc = "generate"]
       ELSE /\ thread' = thread
            /\ au' = AuEnded(au, "Exception")
    /\ UNCHANGED <<notau, cl, files>>

(* the generator node; ainvoke returns the state it ends with *)
AudioGenerate(ok, text) ==
    /\ au.pc = "generate"
    /\ IF ok
       THEN LET st == Generate(au.local, au.ends, "", text)
            IN  /\ thread' = st
                /\ files' = IF st.workflow = "image" THEN files \cup {au.ends} ELSE files
                /\ au' = [au EXCEPT !.local = NoState, !.output_state = st,
                                    !.pc = "synthesize"]
       ELSE /\ thread' = thread
            /\ files' = files
            /\ au' = AuEnded(au, "Exception")
    /\ UNCHANGED <<notau, cl>>

(* lines 157-158: the reply is synthesized *)
AudioSynthesize(ok) ==
    /\ au.pc = "synthesize"
    /\ au' = IF ok THEN [au EXCEPT !.speech = <<"speech">>, !.pc = "send"]
             ELSE AuEnded(au, "TextToSpeechError")
    /\ UNCHANGED <<notau, cl, thread, files>>

(* lines 160-167: the reply is sent with its audio *)
AudioSend ==
    /\ au.pc = "send"
    /\ au' = AuEnded([au EXCEPT !.sent = Append(au.sent,
                         [kind |-> "audio",
                          content |-> Last(au.output_state.messages).content,
                          audio |-> au.speech])], "")
    /\ UNCHANGED <<notau, cl, thread, files>>

NextAudio ==
    \/ on_chat_start
    \/ \E isStart \in BOOLEAN, data \in ChunkData : on_audio_chunk(isStart, data)
    \/ on_audio_end
    \/ \E ok \in BOOLEAN : AudioTranscribe(ok)
    \/ \E ok \in BOOLEAN : AudioSaver(ok)
    \/ \E ok \in BOOLEAN : AudioInvoke(ok)
    \/ \E ok \in BOOLEAN, label \in Labels : AudioRoute(ok, label)
    \/ \E ok \in BOOLEAN, text \in ReplyTexts : AudioGenerate(ok, text)
    \/ \E ok \in BOOLEAN : AudioSynthesize(ok)
    \/ AudioSend

SpecAudio == Init /\ [][NextAudio]_vars

(* on_message and the audio handlers of one session work on one thread and *)
(* are taken up in between each other's awaits; here without failures      *)
NextSession ==
    \/ on_chat_start
    \/ \E elements \in 0..1 : on_message(<<"hi">>, elements)
    \/ ClElement("ok", "ok")
    \/ ClStream(TRUE)
    \/ ClInput(TRUE)
    \/ \E label \in Labels : ClRoute(TRUE, label)
    \/ \E text \in ReplyTexts : ClGenerate(text)
    \/ ClToken
    \/ ClGenerated(TRUE)
    \/ ClGetState(TRUE)
    \/ ClRespond
    \/ \E isStart \in BOOLEAN : on_audio_chunk(isStart, <<"a">>)
    \/ on_audio_end
    \/ AudioTranscribe(TRUE)
    \/ AudioSaver(TRUE)
    \/ AudioInvoke(TRUE)
    \/ \E label \in Labels : AudioRoute(TRUE, label)
    \/ \E text \in ReplyTexts : AudioGenerate(TRUE, text)
    \/ AudioSynthesize(TRUE)
    \/ AudioSend

SpecSession == Init /\ [][NextSession]_vars

(* The two transports are two programs: a behaviour is one of the webhook  *)
(* or one of the Chainlit session.                                         *)
NextTransports ==
    \/ cl = NoCl /\ NextWhatsApp
    \/ (\A h \in Handlers : hnd[h] = NoHandler) /\ NextChainlit

SpecTransports == Init /\ [][NextTransports]_vars

-----------------------------------------------------------------------------
(* The verification handshake (whatsapp_response.py 129-145).  A query     *)
(* parameter or an environment variable that is absent reads as None.      *)

(* os.getenv of a verify token: unset, set to the empty string, or set *)
EnvTokens == {NoneStr, "", "secret", "legacy"}

(* hub.mode, hub.verify_token and hub.challenge of the request *)
Modes == {NoneStr, "subscribe", "unsubscribe"}
Tokens == {NoneStr, "", "secret", "legacy", "guess"}
Challenges == {NoneStr, "1158201444"}

(* Python's `a or b` on Optional[str] *)
Or(a, b) == IF a \in {NoneStr, ""} THEN b ELSE a

(* line 138 *)
verify_token(e) == Or(e.WHATSAPP_VERIFY_TOKEN, e.WEBHOOK_VERIFY_TOKEN)

(* lines 131-145: Response(content=None) has an empty body *)
whatsapp_verification(e, mode, token, challenge) ==
    IF mode = "subscribe" /\ token = verify_token(e)
    THEN [status |-> 200, content |-> IF challenge = NoneStr THEN "" ELSE challenge]
    ELSE [status |-> 403, content |-> "Verification token mismatch"]

Verify(mode, token, challenge) ==
    /\ LET r == whatsapp_verification(vf, mode, token, challenge)
       IN  vf' = [vf EXCEPT !.mode = mode, !.token = token, !.challenge = challenge,
                            !.status = r.status, !.content = r.content]
    /\ UNCHANGED notapp
    /\ UNCHANGED <<vs, fmt, cl, au>>

(* a process started with some setting of the two environment variables *)
InitVerification ==
    /\ collection = FALSE
    /\ points = EmptyPoints
    /\ pc = "idle"
    /\ op = NoOp
    /\ pre = NoPre
    /\ llmOut = NoLlm
    /\ analysis = NoAnalysis
    /\ metadata = NoMetadata
    /\ similar = NoMemory
    /\ similar_memory = NoMemory
    /\ env = NoEnv
    /\ probe = NoProbe
    /\ response = <<>>
    /\ calls = NoCalls
    /\ ret = NoRet
    /\ ImgInit
    /\ WaInit
    /\ vs = NoVs
    /\ fmt = NoFmt
    /\ cl = NoCl
    /\ au = NoAu
    /\ dim = "none"
    /\ \E e1, e2 \in EnvTokens :
          vf = [NoVf EXCEPT !.WHATSAPP_VERIFY_TOKEN = e1, !.WEBHOOK_VERIFY_TOKEN = e2]

NextVerification ==
    \E mode \in Modes, token \in Tokens, challenge \in Challenges :
        Verify(mode, token, challenge)

SpecVerification == InitVerification /\ [][NextVerification]_vars

-----------------------------------------------------------------------------
(* Properties of the memory subsystem (checked under Spec) *)

(* the first request of the script that is not a transient failure, within *)
(* the first three; 0 if there is none                                     *)
FirstAnswer(script) ==
    IF \E i \in 1..3 : script[i] # "rhe"
    THEN CHOOSE i \in 1..3 : script[i] # "rhe" /\ \A j \in 1..(i - 1) : script[j] = "rhe"
    ELSE 0

Done(name) == pc = "done" /\ op.name = name

SameIndex == points = pre.points /\ collection = pre.collection

NoIndexWrite == calls.create = 0 /\ calls.upsert = 0 /\ SameIndex

Near(a, b) == Sim(a, b) >= 90

(* the probe cannot tell that the collection is there: a hard error, or    *)
(* three transient failures                                                *)
Unreachable(script) ==
    FirstAnswer(script) = 0 \/ script[FirstAnswer(script)] = "err"

(* C1 as stated: a fact F2 stored when a record within 0.9 of it exists    *)
(* goes to that record's id and adds no record; stored when every record   *)
(* is farther than 0.9 (under an unused id, the write acknowledged), it    *)
(* makes a new record under an id no record had.                           *)
C1_DedupOnStore ==
    (pc = "done" /\ op.name \in {"extract", "store"} /\ calls.lookups > 0) =>
        /\ (\E id \in DOMAIN pre.points : Near(StoreText, pre.points[id].text)) =>
              /\ Cardinality(DOMAIN points) = Cardinality(DOMAIN pre.points)
              /\ ret.wrote # NoId =>
                    /\ ret.wrote \in DOMAIN pre.points
                    /\ Near(StoreText, pre.points[ret.wrote].text)
        /\ ( /\ \A id \in DOMAIN pre.points : ~Near(StoreText, pre.points[id].text)
             /\ ret.wrote # NoId
             /\ metadata.id \notin DOMAIN pre.points ) =>
              /\ ret.wrote \notin DOMAIN pre.points
              /\ DOMAIN points = DOMAIN pre.points \cup {ret.wrote}
              /\ points[ret.wrote].text = StoreText

(* C2 as stated: no two records of the index are within 0.9 of each other. *)
C2_OneRecordPerFact ==
    \A i, j \in DOMAIN points : i # j => ~Near(points[i].text, points[j].text)

(* C3 as stated: when extract_and_store_memories finds a neighbour with    *)
(* score >= 0.9 it upserts onto that record's id, which then carries the   *)
(* later text, and no other record changes.                                *)
C3_UpdateInPlace ==
    (Done("extract") /\ similar # NoMemory) =>
        /\ calls.upsert = 1
        /\ ret.wrote = similar.metadata.id
        /\ points[ret.wrote].text = analysis.formatted_memory
        /\ \A id \in DOMAIN points \ {ret.wrote} :
              id \in DOMAIN pre.points /\ points[id] = pre.points[id]

(* C3 amended: when extract_and_store_memories finds a neighbour with      *)
(* score >= 0.9 it returns without any upsert: the index is unchanged, the *)
(* existing record keeps its id, text and timestamp, no record is added.   *)
C3_SkipOnSimilar ==
    (Done("extract") /\ similar # NoMemory) =>
        /\ similar.score >= 90
        /\ ret.status = "returned"
        /\ ret.wrote = NoId
        /\ calls.lookups = 1
        /\ NoIndexWrite

C3_Witness ==
    /\ Done("extract")
    /\ similar # NoMemory
    /\ similar.text # analysis.formatted_memory
    /\ \E id \in DOMAIN points : points[id].text = similar.text
    /\ NoIndexWrite

(* C4: extract_and_store_memories on a message that is not human, or on a  *)
(* human message without content, returns without an LLM call, without a   *)
(* search and without an index write; the index is unchanged.              *)
C4_SkipNonHumanOrEmpty ==
    (op.name = "extract" /\ (op.mtype # "human" \/ op.content = "")) =>
        /\ pc = "done"
        /\ ret.status = "returned"
        /\ calls = NoCalls
        /\ SameIndex

C4_Witness ==
    /\ Done("extract")
    /\ op.mtype = "ai"
    /\ op.content # ""
    /\ points # EmptyPoints
    /\ calls = NoCalls

(* C5: an LLM call that raises or returns no MemoryAnalysis counts as      *)
(* {is_important: false, formatted_memory: None}; and with is_important    *)
(* false or formatted_memory None or empty there is no dedup search and no *)
(* index write.                                                            *)
C5_FailOpenAnalysis ==
    (op.name = "extract" /\ llmOut.kind # "none") =>
        /\ llmOut.kind \in {"raise", "other"} =>
              analysis = [is_important |-> FALSE, formatted_memory |-> NoneStr]
        /\ (~analysis.is_important \/ analysis.formatted_memory \in {"", NoneStr}) =>
              /\ pc = "done"
              /\ ret.status = "returned"
              /\ calls.lookups = 0
              /\ calls.search = 0
              /\ NoIndexWrite

C5_Witness ==
    /\ Done("extract")
    /\ llmOut.kind = "other"
    /\ llmOut.is_important
    /\ points # EmptyPoints
    /\ calls.lookups = 0

(* C6: extract_and_store_memories and get_relevant_memories return         *)
(* normally whatever fails underneath.                                     *)
C6_NoExceptionEscapes ==
    (pc = "done" /\ op.name \in {"extract", "get"}) => ret.status = "returned"

(* the embedding of the text failed inside store_memory, after its dedup search *)
C6_Witness ==
    /\ Done("extract")
    /\ calls.lookups = 2
    /\ calls.upsert = 0
    /\ ret.status = "returned"

(* C7: get_relevant_memories returns [] without raising when the           *)
(* collection is absent, the probe fails, or embedding or search raises;   *)
(* with the collection absent or the probe failing no search is requested. *)
C7_EmptyOnFailure ==
    Done("get") =>
        /\ ret.status = "returned"
        /\ (~pre.collection \/ Unreachable(env.script) \/ ~env.encOk \/ ~env.searchOk) =>
              ret.value = <<>>
        /\ (~pre.collection \/ Unreachable(env.script)) => calls.search = 0

C7_Witness ==
    /\ Done("get")
    /\ pre.collection
    /\ points # EmptyPoints
    /\ Unreachable(env.script)
    /\ ret.value = <<>>

(* C8: after a successful search get_relevant_memories returns the text of *)
(* each hit, one per hit, in the order of the hits (best score first), and *)
(* at most k of them.                                                      *)
C8_TextsOfHitsInOrder ==
    (Done("get") /\ pre.collection /\ ~Unreachable(env.script) /\ env.encOk /\ env.searchOk) =>
        /\ Len(ret.value) = Len(response)
        /\ \A i \in 1..Len(response) : ret.value[i] = response[i].payload.text
        /\ \A i, j \in 1..Len(response) : i < j => response[i].score >= response[j].score
        /\ Len(ret.value) <= op.k

C8_Witness ==
    /\ Done("get")
    /\ env.encOk /\ env.searchOk /\ ~Unreachable(env.script)
    /\ Cardinality(DOMAIN points) > op.k
    /\ Len(ret.value) = op.k
    /\ op.content # ret.value[1]

-----
(* Properties of the collection probe (checked under SpecProbe) *)

(* C9: _collection_exists ends without raising after at most 3 requests to *)
(* the index; three transient failures give False; a request that is       *)
(* answered ends the probe at once with "is the collection listed".        *)
C9_ProbeBounded ==
    probe.ran =>
        /\ ~probe.raised
        /\ probe.contacts <= 3
        /\ (\A i \in 1..3 : probe.script[i] = "rhe") =>
               probe.result = FALSE /\ probe.contacts = 3
        /\ \A i \in 1..3 :
               (FirstAnswer(probe.script) = i /\ probe.script[i] = "ok") =>
                   probe.result = probe.listing /\ probe.contacts = i

C9_Witness ==
    /\ probe.ran
    /\ \A i \in 1..ScriptLen : probe.script[i] = "rhe"
    /\ probe.listing
    /\ probe.result = FALSE
    /\ probe.contacts = 3

(* C10 as stated: the wait after the n-th failed attempt is 2 * 2^(n-1).   *)
C10_ExponentialBackoff ==
    probe.ran => \A n \in 1..Len(probe.sleeps) : probe.sleeps[n] = 2 * 2 ^ (n - 1)

(* what holds of the waits: the n-th is attempt * 2, which for the waits    *)
(* between two attempts (the first and the second) is also 2 * 2^(n-1)     *)
WaitsBetweenAttemptsDouble ==
    probe.ran =>
        \A n \in 1..Len(probe.sleeps) :
            /\ probe.sleeps[n] = 2 * n
            /\ n < max_retries => probe.sleeps[n] = 2 * 2 ^ (n - 1)
-----------------------------------------------------------------------------
(* Properties of repeated stores (checked under Spec) *)

(* the direct store_memory call that has finished found the index          *)
(* reachable: the probes answered, the search and the upsert went through  *)
StoredReachable ==
    /\ pc = "done" /\ op.name \in {"store", "store_again"}
    /\ ret.wrote # NoId
    /\ calls.answered = 1

SameButTimestamps(p, q) ==
    /\ DOMAIN p = DOMAIN q
    /\ \A id \in DOMAIN p : p[id].text = q[id].text /\ p[id].id = q[id].id

(* C12 as stated: after store_memory is called twice with the same         *)
(* {id, text}, index reachable both times, one record is retrievable under *)
(* that id, and the index is what it was after the first call but for the  *)
(* timestamps.                                                             *)
C12_IdempotentUnderGivenId ==
    (StoredReachable /\ op.name = "store_again") =>
        /\ op.id \in DOMAIN points
        /\ points[op.id].text = op.content
        /\ SameButTimestamps(points, pre.points)

(* C12 amended: a reachable store_memory writes the text under the given   *)
(* id, or, when a record scoring at least 0.9 against the text exists,     *)
(* under that record's id; after the second call with the same {id, text}  *)
(* the index is what it was after the first call but for the timestamps.   *)
C12_IdempotentAtTarget ==
    StoredReachable =>
        /\ ret.wrote \in DOMAIN points
        /\ points[ret.wrote].text = op.content
        /\ points[ret.wrote].id = ret.wrote
        /\ \/ ret.wrote = op.id
           \/ ret.wrote \in DOMAIN pre.points /\ Near(op.content, pre.points[ret.wrote].text)
        /\ (\E id \in DOMAIN pre.points : Near(op.content, pre.points[id].text)) =>
              ret.wrote \in DOMAIN pre.points /\ DOMAIN points = DOMAIN pre.points
        /\ op.name = "store_again" => SameButTimestamps(points, pre.points)

C12_Witness ==
    /\ StoredReachable /\ op.name = "store_again"
    /\ ret.wrote # op.id
    /\ op.id \notin DOMAIN points
    /\ points[ret.wrote].timestamp # pre.points[ret.wrote].timestamp
-----------------------------------------------------------------------------
(* Properties of the LLM clients and of TextToImage (checked under SpecImage) *)

ImgDone(name) == ipc = "done" /\ iop.name = name

(* the fail-open default of the call that has finished *)
LlmDefault ==
    /\ iret.status = "returned"
    /\ iop.name = "enhance_prompt" =>
          enhanced_prompt = iop.prompt \o FallbackSuffix /\ iret.value = "fallback"
    /\ iop.name = "create_scenario" => iret.value = FallbackScenario
    /\ iop.name = "_analyze_memory" =>
          iret.value = [is_important |-> FALSE, formatted_memory |-> NoneStr]

LlmCallDone ==
    /\ ipc = "done"
    /\ iop.name \in {"enhance_prompt", "create_scenario", "_analyze_memory"}
    /\ llm.caller # "none"

(* C11 as stated: every LLM call (memory analysis, scenario synthesis,     *)
(* prompt enhancement) is attempted at most once per invocation and its    *)
(* first failure gives the fail-open default.                              *)
C11_LlmAttemptedOnce ==
    LlmCallDone => (llm.attempts <= 1 /\ (llm.raised => LlmDefault))

(* what holds of an LLM call: no more than 1 + max_retries requests, and a  *)
(* call that raised has given the fail-open default to the caller          *)
LlmFailureGivesDefault ==
    LlmCallDone =>
        /\ llm.attempts <= 1 + llm_max_retries
        /\ llm.raised => LlmDefault
        /\ iret.status = "returned"

RenderFailed ==
    /\ ImgDone("generate_image")
    /\ Len(requests) > 0
    /\ requests[Len(requests)].outcome # "ok"

(* C19 as stated: when the render request fails (HTTP error or any other   *)
(* exception) generate_image does not let an error out to its caller: the  *)
(* call completes.                                                         *)
C19_RenderFailureCompletes ==
    RenderFailed => iret.status = "returned"

(* C20: in generate_image no render request is issued before prompt        *)
(* enhancement has finished; the one request of the call is built from the *)
(* enhanced prompt (the LLM's, or the prompt with the fallback suffix),    *)
(* not from the prompt as given; a call issues at most one render request. *)
C20_EnhanceThenRenderOnce ==
    iop.name = "generate_image" =>
        /\ Len(requests) <= 1
        /\ ipc = "enhance" => (requests = <<>> /\ llm.caller = "none")
        /\ Len(requests) = 1 =>
              /\ llm.caller = "enhance"
              /\ llm.raised => enhanced_prompt = iop.prompt \o FallbackSuffix
              /\ requests[1].url.base = api_url
              /\ requests[1].url.path = quote(enhanced_prompt)
              /\ requests[1].url.path # quote(iop.prompt)

C20_Witness ==
    /\ ImgDone("generate_image")
    /\ Len(requests) = 1
    /\ requests[1].outcome = "ok"
    /\ llm.raised /\ llm.attempts = 3
    /\ requests[1].url.path = quote(iop.prompt \o FallbackSuffix)
    /\ " " \in {iop.prompt[i] : i \in 1..Len(iop.prompt)}
    /\ iret.status = "returned"

-----------------------------------------------------------------------------
(* Properties of the WhatsApp handler *)

ResponseKinds == {"text", "audio", "image"}

(* the response messages a handler has sent to the user *)
Responses(h) == {i \in DOMAIN hnd[h].posts : hnd[h].posts[i].kind \in ResponseKinds}

HumanEntries(m) ==
    {i \in DOMAIN thread.messages :
        thread.messages[i].role = "human" /\ thread.messages[i].id = m}

Answered(m) == {h \in Handlers : hnd[h].payload.id = m /\ Responses(h) # {}}

(* C13: once whatsapp_message_handler has ended for an inbound user        *)
(* message, exactly one response message has been sent to the user, on     *)
(* every path: never zero and never two.                                   *)
C13_ExactlyOneResponse ==
    \A h \in Handlers :
        (At(h, "done") /\ IsMessage(hnd[h].payload)) => Cardinality(Responses(h)) = 1

(* C14: a message id that the webhook delivers more than once is appended  *)
(* to the thread history at most once and answered at most once.           *)
C14_ExactlyOnceDelivery ==
    \A m \in MsgIds :
        /\ Cardinality(HumanEntries(m)) <= 1
        /\ Cardinality(Answered(m)) <= 1

(* between the read of the thread state and the commit of the turn *)
InTurn(h) == hnd[h].pc \in {"route", "generate"}

Processed(h) == At(h, "done") /\ hnd[h].status = 200 /\ hnd[h].body = "Processed"

InHistory(messages, role, h) ==
    \E i \in DOMAIN messages : messages[i].role = role /\ messages[i].turn = h

(* C15: two invocations for the same thread are never both between their   *)
(* read and their commit; a turn whose read holds the human message of     *)
(* another turn also holds that turn's assistant message, unless that turn *)
(* failed; and when both turns were processed the persisted history holds  *)
(* the human and the assistant message of both.                            *)
C15_TurnsSerialized ==
    \A h, g \in Handlers : h # g =>
        /\ ~(InTurn(h) /\ InTurn(g))
        /\ (InTurn(h) /\ InHistory(hnd[h].local.messages, "human", g) /\ hnd[g].status # 500)
              => InHistory(hnd[h].local.messages, "ai", g)
        /\ (Processed(h) /\ Processed(g))
              => \A role \in {"human", "ai"} : InHistory(thread.messages, role, h)

(* C16: in the state a handler has read after its turn, workflow 'audio'   *)
(* comes with the audio bytes of this turn and workflow 'image' with the   *)
(* image of this turn, present on disk.                                    *)
C16_OutputsOfThisTurn ==
    \A h \in Handlers :
        At(h, "respond") =>
            /\ hnd[h].output_state.workflow = "audio" => hnd[h].output_state.audio_buffer = h
            /\ hnd[h].output_state.workflow = "image" =>
                  (hnd[h].output_state.image_path = h /\ h \in files)

(* C17: once the router has run on a turn whose content carries the        *)
(* marker of a user image or an image analysis, the workflow is            *)
(* 'conversation'; and no image message is ever sent in answer to an       *)
(* inbound image.                                                          *)
C17_UserImageIsConversation ==
    \A h \in Handlers :
        /\ (hnd[h].pc \in {"generate", "get_state"} /\ HasImageMarker(hnd[h].content))
              => hnd[h].local.workflow = "conversation"
        /\ hnd[h].payload.kind = "image" =>
              \A i \in DOMAIN hnd[h].posts : hnd[h].posts[i].kind # "image"

(* C18: when the workflow read is absent, empty or any value other than    *)
(* 'image' and 'audio', the response sent is one text message carrying the *)
(* last message of the state, and nothing else.                            *)
C18_DefaultIsConversation ==
    \A h \in Handlers :
        (At(h, "final") /\ hnd[h].output_state.workflow \notin {"image", "audio"}) =>
            /\ Cardinality(Responses(h)) = 1
            /\ \A i \in Responses(h) :
                  /\ hnd[h].posts[i].kind = "text"
                  /\ hnd[h].posts[i].body = Last(hnd[h].output_state.messages).content

(* an unknown workflow value, with audio and image outputs at hand, was    *)
(* answered with text, after a read receipt that was not accepted          *)
C18_Witness ==
    \E h \in Handlers :
        /\ At(h, "final")
        /\ ~hnd[h].posts[1].accepted
        /\ hnd[h].output_state.workflow = "video"
        /\ hnd[h].output_state.image_path \in files
        /\ hnd[h].output_state.audio_buffer # 0
        /\ Cardinality(Responses(h)) = 1

(* the content carries the tag of a user image and an analysis annotation *)
Tagged(content) ==
    /\ USER_SENT_IMAGE \in Pieces(content)
    /\ Pieces(content) \cap {IMAGE_ANALYSIS, ANALYSIS_FAILED, CL_ANALYSIS_FAILED} # {}

Invoking(h) ==
    hnd[h].pc \in {"invoke", "route", "generate", "get_state", "respond", "post_media",
                   "caption", "final"}

ClInvoking ==
    cl.pc \in {"stream", "input", "route", "generate", "tokens", "get_state", "respond"}

FromImage(m) ==
    IF cl.turn > 0 THEN m.turn = cl.turn /\ cl.images > 0
    ELSE hnd[m.turn].payload.kind = "image"

(* C21: for an inbound image, in the webhook and in the Chainlit session,  *)
(* the content held when the workflow is invoked, and the human message    *)
(* the workflow receives, carry the [USER_SENT_IMAGE] tag and an           *)
(* [Image Analysis: ...] annotation, also when the analysis failed.        *)
C21_ImageTurnsTagged ==
    /\ \A h \in Handlers :
          (hnd[h].payload.kind = "image" /\ Invoking(h)) => Tagged(hnd[h].content)
    /\ (cl.images > 0 /\ ClInvoking) => Tagged(cl.content)
    /\ \A i \in DOMAIN thread.messages :
          (thread.messages[i].role = "human" /\ FromImage(thread.messages[i]))
              => Tagged(thread.messages[i].content)

(* the workflow has received an inbound image whose analysis failed, after *)
(* a read receipt and a start reaction that were not accepted              *)
C21_Witness ==
    \E h \in Handlers :
        /\ At(h, "route")
        /\ hnd[h].payload.kind = "image"
        /\ ~hnd[h].posts[1].accepted
        /\ ~hnd[h].posts[2].accepted
        /\ ANALYSIS_FAILED \in Pieces(Last(thread.messages).content)

(* C22: a turn of an inbound user message that ended with an error has     *)
(* sent the user a text message (the apology).                             *)
C22_ApologyOnFailure ==
    \A h \in Handlers :
        (At(h, "done") /\ hnd[h].status = 500 /\ IsMessage(hnd[h].payload)) =>
            \E i \in DOMAIN hnd[h].posts : hnd[h].posts[i].kind = "text"

Supported(h) == hnd[h].payload.kind \in {"text", "audio", "image"}

IsCheck(post) == post.kind = "reaction" /\ post.body = "check"

(* C28: for a supported inbound message the requests go out in the order   *)
(* mark-as-read, start reaction, (workflow invocation), response, success  *)
(* reaction: nothing is sent after the start reaction before the workflow  *)
(* was invoked, the success reaction is the last request and follows a     *)
(* response, and 200 'Processed' is returned exactly when it was sent.     *)
C28_OutboundOrder ==
    \A h \in Handlers : Supported(h) =>
        LET p == hnd[h].posts
        IN  /\ Len(p) >= 1 => p[1].kind = "read"
            /\ Len(p) >= 2 => (p[2].kind = "reaction"
                               /\ p[2].body = StartReaction(hnd[h].payload.kind))
            /\ Len(p) >= 3 => InHistory(thread.messages, "human", h)
            /\ \A i \in DOMAIN p : i >= 3 =>
                  \/ p[i].kind \in ResponseKinds
                  \/ IsCheck(p[i]) /\ i = Len(p) /\ p[i - 1].kind \in ResponseKinds
            /\ Processed(h) <=> (Len(p) >= 4 /\ IsCheck(p[Len(p)]))

(* a text message was processed: read, reaction, reply, success reaction,  *)
(* the receipt and both reactions answered with a status other than 200    *)
C28_Witness ==
    \E h \in Handlers :
        /\ Processed(h)
        /\ hnd[h].payload.kind = "text"
        /\ Len(hnd[h].posts) = 4
        /\ ~hnd[h].posts[1].accepted
        /\ ~hnd[h].posts[2].accepted
        /\ hnd[h].posts[3].kind = "text"
        /\ ~hnd[h].posts[4].accepted

(* C29: the state a handler reads after its ainvoke ends with the          *)
(* assistant message of its own turn.                                      *)
C29_ReplyOfThisTurn ==
    \A h \in Handlers :
        At(h, "respond") =>
            /\ Last(hnd[h].output_state.messages).role = "ai"
            /\ Last(hnd[h].output_state.messages).turn = h

(* the payloads that carry no message: no entry/changes, a change without *)
(* a value, a status update, a value without messages or with none         *)
Acknowledged == {"empty", "novalue", "statuses", "nomessages", "emptymessages"}

(* C30: a payload with a status update, without entry/changes or without   *)
(* messages is answered 200; nothing was posted for it, the thread holds   *)
(* no message of it and it left no file.                                   *)
C30_AcknowledgedOnly ==
    \A h \in Handlers :
        hnd[h].payload.kind \in Acknowledged =>
            /\ At(h, "done")
            /\ hnd[h].status = 200
            /\ hnd[h].posts = <<>>
            /\ ~InHistory(thread.messages, "human", h)
            /\ ~InHistory(thread.messages, "ai", h)
            /\ h \notin files

(* what holds of these payloads: no effect but the answer, which is 200    *)
(* unless the change has no value or the list of messages is empty         *)
AcknowledgedUnlessMalformed ==
    \A h \in Handlers :
        hnd[h].payload.kind \in Acknowledged =>
            /\ At(h, "done")
            /\ hnd[h].status = IF hnd[h].payload.kind \in {"novalue", "emptymessages"}
                               THEN 500 ELSE 200
            /\ hnd[h].posts = <<>>
            /\ ~InHistory(thread.messages, "human", h)
            /\ ~InHistory(thread.messages, "ai", h)
            /\ h \notin files

StoreCall == op.name \in {"store", "store_again"}

(* the collection was created by the running call *)
Created == collection /\ ~pre.collection

(* C25 as stated: store_memory asks for the creation only after the probe  *)
(* answered absent; when the creation then fails the call returns without  *)
(* an upsert, with the index as it was; when it succeeds the upsert        *)
(* follows; a call that wrote a point leaves the collection existing.      *)
C25_UpsertFollowsCreation ==
    StoreCall =>
        /\ calls.create > 0 => calls.absent = 1
        /\ calls.create <= 1
        /\ (pc = "done" /\ calls.absent = 1 /\ ~Created) =>
              /\ ret = Returned(<<>>, NoId)
              /\ calls.upsert = 0
              /\ points = pre.points
        /\ (pc = "done" /\ Created) => calls.upsert = 1
        /\ (pc = "done" /\ ret.wrote # NoId) => collection

(* C25 amended: store_memory asks for the creation only after the probe    *)
(* answered absent; when the creation then fails the call returns without  *)
(* an upsert, with the index as it was; when it succeeds the call goes on  *)
(* to the duplicate search and to model.encode, and the upsert follows     *)
(* exactly when model.encode returns: when it raises, store_memory raises  *)
(* without an upsert and the new collection stays, empty as it was         *)
(* created; a call that wrote a point leaves the collection existing.      *)
C25_LazyCreation ==
    StoreCall =>
        /\ calls.create > 0 => calls.absent = 1
        /\ calls.create <= 1
        /\ (pc = "done" /\ calls.absent = 1 /\ ~Created) =>
              /\ ret = Returned(<<>>, NoId)
              /\ calls.upsert = 0
              /\ calls.lookups = 0
              /\ points = pre.points
              /\ collection = pre.collection
        /\ (pc = "done" /\ Created) =>
              /\ calls.lookups = 1
              /\ ret.status = "returned" => calls.upsert = 1
              /\ ret.status = "raised" =>
                    /\ calls.upsert = 0
                    /\ points = pre.points
                    /\ collection
        /\ (pc = "done" /\ ret.wrote # NoId) => collection

(* the probe answered absent, the creation succeeded, model.encode raised:  *)
(* no upsert, and the collection is there                                  *)
C25_Witness ==
    /\ Done("store")
    /\ calls.absent = 1
    /\ calls.create = 1
    /\ Created
    /\ ret.status = "raised"
    /\ calls.upsert = 0

(* the probe answered absent, the creation was asked for and failed, and   *)
(* the call returned                                                       *)
CreationFailedSkips ==
    /\ Done("store")
    /\ calls.absent = 1
    /\ calls.create = 1
    /\ ~collection
    /\ ret.status = "returned"

(* C26: a write whose vector is not of the size of the collection is       *)
(* fatal: store_memory does not return from it.                            *)
C26_MismatchIsFatal ==
    (pc = "done" /\ StoreCall /\ calls.upsert = 1 /\ dim # ModelDim) => ret.status = "raised"

(* C27: the string returned is empty for the empty list; for n memories it *)
(* is n lines '- <memory>' in the order of the list, a newline between two *)
(* lines and none after the last.                                          *)
C27_BulletLines ==
    fmt.returned =>
        LET n == Len(fmt.memories)
            out == fmt.formatted
        IN  IF n = 0 THEN out = <<>>
            ELSE /\ Len(out) = 3 * n - 1
                 /\ \A i \in 1..n :
                       /\ out[3 * i - 2] = "- "
                       /\ out[3 * i - 1] = fmt.memories[i]
                       /\ i < n => out[3 * i] = "\n"
                 /\ out[Len(out)] = fmt.memories[n]

(* three memories, the second of them empty, were formatted *)
C27_Witness ==
    /\ fmt.returned
    /\ fmt.memories = <<"f2", "", "f1">>
    /\ fmt.formatted = <<"- ", "f2", "\n", "- ", "", "\n", "- ", "f1">>

Objects == {h[2] : h \in vs.held}

(* C24: all callers hold the same VectorStore object, and once the         *)
(* initialization has succeeded no step constructs the model or the client *)
(* again.                                                                  *)
C24_Singleton ==
    /\ [](Cardinality(Objects) <= 1)
    /\ [][vs.initialized => (vs'.models = vs.models /\ vs'.clients = vs.clients)]_vars

(* after a failed first construction, the three kinds of caller hold the   *)
(* one object and one client was built                                     *)
C24_Witness ==
    /\ vs.initialized
    /\ vs.models = 2
    /\ vs.clients = 1
    /\ {h[1] : h \in vs.held} = Callers

(* C23: analyze_image ends with ValueError when the image data is empty or *)
(* the file does not exist, and with ImageToTextError only when the        *)
(* analysis itself failed.                                                 *)
C23_ValueErrorForBadInput ==
    ImgDone("analyze_image") =>
        /\ iop.image_data \in {"missing file", "empty file", "empty bytes"} =>
              (iret.status = "raised" /\ iret.exc = "ValueError")
        /\ (iret.status = "raised" /\ iret.exc = "ImageToTextError") =>
              iop.image_data \in {"file", "bytes"}

-----------------------------------------------------------------------------
Unsupported(h) == IsMessage(hnd[h].payload) /\ ~Supported(h)

(* the turn never entered the workflow and left the thread and the files alone *)
Untouched(h) ==
    /\ ~InHistory(thread.messages, "human", h)
    /\ ~InHistory(thread.messages, "ai", h)
    /\ h \notin files
    /\ \A i \in DOMAIN hnd[h].posts : ~IsCheck(hnd[h].posts[i])

(* C31: a handler that has ended for a message whose type is not text,     *)
(* image or audio has sent exactly one text, the apology for the type, has *)
(* not invoked the workflow, has left the thread as it was, has sent no    *)
(* success reaction and has returned 200.                                  *)
C31_UnsupportedType ==
    \A h \in Handlers :
        (At(h, "done") /\ Unsupported(h)) =>
            /\ Cardinality(Responses(h)) = 1
            /\ \A i \in Responses(h) :
                  hnd[h].posts[i].kind = "text" /\ hnd[h].posts[i].body = SORRY
            /\ Untouched(h)
            /\ hnd[h].status = 200

(* what holds of such a handler on every path: the apology is the only     *)
(* response it can have sent, and it answers 200 exactly when the send of  *)
(* the apology returned                                                    *)
UnsupportedUnlessRaised ==
    \A h \in Handlers :
        Unsupported(h) =>
            /\ Cardinality(Responses(h)) <= 1
            /\ \A i \in Responses(h) :
                  hnd[h].posts[i].kind = "text" /\ hnd[h].posts[i].body = SORRY
            /\ Untouched(h)
            /\ At(h, "done") =>
                  (hnd[h].status = 200 <=> Cardinality(Responses(h)) = 1)

-----------------------------------------------------------------------------
(* the verify tokens the process is configured with *)
Configured == {vf.WHATSAPP_VERIFY_TOKEN, vf.WEBHOOK_VERIFY_TOKEN} \ {NoneStr, ""}

Verified == vf.status = 200

(* C32: whatsapp_verification answers 200 with the challenge only if       *)
(* hub.mode is 'subscribe' and the request supplies a hub.verify_token     *)
(* that is a configured verify token; every other request, also one        *)
(* without a token to a process without a configured token, is answered    *)
(* 403 without the challenge.                                              *)
C32_VerifiedOnlyWithToken ==
    vf.status # 0 =>
        /\ Verified =>
              /\ vf.mode = "subscribe"
              /\ vf.token # NoneStr
              /\ vf.token \in Configured
        /\ ~Verified =>
              /\ vf.status = 403
              /\ vf.content # vf.challenge

-----------------------------------------------------------------------------
(* the attempt of the finished probe that met an error other than          *)
(* ResponseHandlingException, after transient failures only (0: none)      *)
HardErrorAt ==
    LET hard == {i \in 1..max_retries :
                    /\ probe.script[i] = "err"
                    /\ \A j \in 1..(i - 1) : probe.script[j] = "rhe"}
    IN  IF hard = {} THEN 0 ELSE CHOOSE i \in hard : TRUE

AllTransient == \A i \in 1..max_retries : probe.script[i] = "rhe"

(* C33: in _collection_exists an error that is not                         *)
(* ResponseHandlingException ends the probe at once with false: the        *)
(* attempt that met it is the last contact, and the only waits are those   *)
(* that followed the transient failures before it.                         *)
C33_HardErrorEndsProbe ==
    (probe.ran /\ HardErrorAt # 0) =>
        /\ probe.result = FALSE
        /\ ~probe.raised
        /\ probe.contacts = HardErrorAt
        /\ Len(probe.sleeps) = HardErrorAt - 1

(* a hard error at the second attempt, the collection being there *)
C33_Witness ==
    /\ probe.ran
    /\ HardErrorAt = 2
    /\ probe.listing
    /\ probe.result = FALSE
    /\ probe.contacts = 2
    /\ probe.sleeps = <<2>>

(* C34: _collection_exists waits only between attempts: every wait is      *)
(* followed by another attempt, and a probe whose three attempts all fail  *)
(* returns false after exactly 2 waits.                                    *)
C34_WaitsOnlyBetweenAttempts ==
    probe.ran =>
        /\ Len(probe.sleeps) < probe.contacts
        /\ AllTransient => (probe.result = FALSE /\ Len(probe.sleeps) = 2)

-----------------------------------------------------------------------------
(* the finished create_scenario met a failure: no chat history to slice,   *)
(* the LLM call raised, or what came back is not a ScenarioPrompt          *)
ScenarioFailed ==
    \/ iop.chat_history = NoneStr
    \/ llm.raised
    \/ iop.value.kind # "scenario"

(* the finished enhance_prompt met a failure: the LLM call raised, or what *)
(* came back has no content                                                *)
EnhanceFailed == llm.raised \/ iop.value.kind # "prompt"

(* C35: create_scenario and enhance_prompt never raise.  On a failure      *)
(* create_scenario returns the fixed fallback scenario, whose narrative    *)
(* and image prompt are not empty, and enhance_prompt returns the original *)
(* prompt followed by the fixed quality suffix; without a failure each     *)
(* returns what the LLM gave.                                              *)
C35_LlmStagesFailOpen ==
    /\ ImgDone("create_scenario") =>
          /\ iret.status = "returned"
          /\ ScenarioFailed =>
                /\ iret.value = FallbackScenario
                /\ iret.value.narrative # ""
                /\ iret.value.image_prompt # ""
          /\ ~ScenarioFailed =>
                iret.value = [narrative |-> iop.value.narrative,
                              image_prompt |-> iop.value.image_prompt]
    /\ ImgDone("enhance_prompt") =>
          /\ iret.status = "returned"
          /\ EnhanceFailed =>
                /\ enhanced_prompt = iop.prompt \o FallbackSuffix
                /\ Len(enhanced_prompt) = Len(iop.prompt) + Len(FallbackSuffix)
          /\ ~EnhanceFailed => enhanced_prompt = iop.value.content

(* the scenario LLM failed on every request the client made *)
C35_Witness ==
    /\ ImgDone("create_scenario")
    /\ iop.chat_history = "[human: hello]"
    /\ llm.raised /\ llm.attempts = 3
    /\ iret.status = "returned"
    /\ iret.value = FallbackScenario

-----------------------------------------------------------------------------
GenerateCall == iop.name = "generate_image" /\ ipc # "idle"

(* the render request of the running generate_image was answered *)
Rendered == Len(requests) = 1 /\ requests[1].outcome = "ok"

(* a generate_image call with a blank prompt has ended with ValueError,    *)
(* without an LLM call and without a render request; any other call that   *)
(* raised has raised TextToImageError                                      *)
GenerateErrors ==
    GenerateCall =>
        /\ Blank(iop.prompt) =>
              /\ ipc = "done"
              /\ iret.status = "raised" /\ iret.exc = "ValueError"
              /\ llm = NoLlmCall
              /\ requests = <<>>
        /\ (~Blank(iop.prompt) /\ iret.status = "raised") =>
              iret.exc = "TextToImageError"

(* a file is written only by a generate_image call with a prompt that is   *)
(* not blank, whose render succeeded, under its non-empty output_path      *)
WritesOnlyRendered ==
    saved' # saved =>
        /\ GenerateCall /\ ~Blank(iop.prompt)
        /\ Rendered
        /\ iop.output_path # ""
        /\ DOMAIN saved' = DOMAIN saved \cup {iop.output_path}
        /\ \A f \in DOMAIN saved \ {iop.output_path} : saved'[f] = saved[f]

(* C36: generate_image with an empty or whitespace-only prompt raises      *)
(* ValueError before any LLM or render call and writes no file; every      *)
(* failure after that check surfaces as TextToImageError; the output file  *)
(* is written only when the render succeeded and output_path is not empty. *)
C36_GenerateImageErrors == []GenerateErrors /\ [][WritesOnlyRendered]_vars

(* a whitespace-only prompt with an output path: ValueError, nothing done *)
C36_Witness ==
    /\ ImgDone("generate_image")
    /\ iop.prompt = <<" ">>
    /\ iop.output_path = "generated_images/image.png"
    /\ iret.status = "raised" /\ iret.exc = "ValueError"
    /\ requests = <<>>
    /\ iop.output_path \notin DOMAIN saved

-----------------------------------------------------------------------------
(* the session's buffer holds the chunks since the last start chunk, in    *)
(* arrival order, and on_audio_end has handed exactly them to transcribe   *)
BufferSinceStart ==
    /\ au.has_buffer =>
          /\ au.audio_buffer = au.since
          /\ au.position = Len(au.audio_buffer)
    /\ au.pc # "idle" => au.audio_data = au.read
    /\ au.pc \notin {"idle", "transcribe"} => au.transcribed = au.read

(* no chunk handler has met a session without a buffer *)
ChunkFoundBuffer == au.chunk # "AttributeError"

(* C37: in the Chainlit transport, for any sequence of audio chunk events, *)
(* a start chunk replaces the session buffer by an empty one before its    *)
(* data is written, on_audio_end transcribes exactly the concatenation, in *)
(* arrival order, of the chunks since the last start chunk, and no chunk   *)
(* is written to a missing buffer.                                         *)
C37_AudioBuffer == BufferSinceStart /\ ChunkFoundBuffer

====
